---- MODULE Spec2Model ----
(***************************************************************************)
(* A model of gdshelpers' layout core: the shapely-based fracture / heal   *)
(* engine (geometry/shapely_adapter.py), the Cell layout graph with its    *)
(* bounding-box cache (geometry/chip.py) and the GDSII stream export with  *)
(* its serial and process-pool variants (export/gdsii_export.py).          *)
(*                                                                         *)
(* Geometry.  shapely is an external library; its values are modelled on   *)
(* an exact integer domain: a Polygon is a finite set of pairwise          *)
(* interior-disjoint axis-parallel rectangles <<x0, y0, x1, y1>> whose     *)
(* union is edge-connected (a rectilinear polygon, possibly with holes),   *)
(* a LineString is a horizontal chain of points.  Rings are counted        *)
(* without collinear vertices.                                             *)
(***************************************************************************)
EXTENDS Integers, Sequences, FiniteSets, TLC

\* Python's None, and an optional value that is not None
None == <<>>

Some(v) == <<v>>

(***************************************************************************)
(* Bounds of the model.                                                    *)
(***************************************************************************)
\* number of columns of an input polygon
MaxCols == 4
\* number of points of an input line
MaxLinePts == 9
\* largest point budget tried
MaxPoints == 14

\* number of Cell objects of a program
MaxCells == 3
\* number of instances added with add_cell
MaxRefs == 3
\* number of geometries added with add_to_layer
MaxShapes == 1
\* number of entries added with add_dlw_data
MaxDlw == 1

\* number of instances placed and of geometries added where bounds are asked
MaxPlaced == 2
MaxGeometries == 2

\* side of one building block of an input polygon, in coordinate units;
\* a power of two, so that the cuts of the inputs tried fall on integers
Scale == 16

(***************************************************************************)
(* Small helpers.                                                          *)
(***************************************************************************)
Range(s) == {s[i] : i \in 1..Len(s)}

Min(S) == CHOOSE a \in S : \A b \in S : a <= b

Max(S) == CHOOSE a \in S : \A b \in S : a >= b

Abs(a) == IF a < 0 THEN -a ELSE a

RECURSIVE Concat(_)
\* itertools.chain(*lists) / list.extend over a sequence of sequences
Concat(ss) == IF ss = <<>> THEN <<>> ELSE Head(ss) \o Concat(Tail(ss))

RECURSIVE SetToSeq(_)
\* The elements of a set of integer tuples in lexicographic order.
LexLess(a, b) ==
    \E k \in 1..Len(a) : a[k] < b[k] /\ \A m \in 1..(k - 1) : a[m] = b[m]

SetToSeq(S) ==
    IF S = {} THEN <<>>
    ELSE LET m == CHOOSE a \in S : \A b \in S \ {a} : LexLess(a, b)
         IN <<m>> \o SetToSeq(S \ {m})

(***************************************************************************)
(* shapely values.                                                         *)
(***************************************************************************)
\* Two rectangles overlap in a region of positive area.
RectsOverlap(a, b) ==
    /\ a[1] < b[3] /\ b[1] < a[3]
    /\ a[2] < b[4] /\ b[2] < a[4]

\* Two rectangles share a boundary segment of positive length.
RectsShareEdge(a, b) ==
    \/ /\ (a[3] = b[1] \/ b[3] = a[1])
       /\ a[2] < b[4] /\ b[2] < a[4]
    \/ /\ (a[4] = b[2] \/ b[4] = a[2])
       /\ a[1] < b[3] /\ b[1] < a[3]

\* Two closed rectangles have a point in common.
RectsMeet(a, b) ==
    /\ a[1] <= b[3] /\ b[1] <= a[3]
    /\ a[2] <= b[4] /\ b[2] <= a[4]

RECURSIVE Flood(_, _, _)
\* The elements of `all` reachable from `seen` by steps of the relation `adj`
\* (a set of pairs).
Flood(seen, all, adj) ==
    LET more == {b \in all \ seen : \E a \in seen : <<a, b>> \in adj}
    IN IF more = {} THEN seen ELSE Flood(seen \cup more, all, adj)

RECURSIVE Components(_, _)
\* The classes of `all` under the closure of `adj`, in lexicographic order of
\* their least element.
Components(all, adj) ==
    IF all = {} THEN <<>>
    ELSE LET m == CHOOSE a \in all : \A b \in all \ {a} : LexLess(a, b)
             c == Flood({m}, all, adj)
         IN <<c>> \o Components(all \ c, adj)

RectArea(r) == (r[3] - r[1]) * (r[4] - r[2])

RECURSIVE Area(_)
Area(rects) ==
    IF rects = {} THEN 0
    ELSE LET r == CHOOSE r \in rects : TRUE
         IN RectArea(r) + Area(rects \ {r})

BoundsOfRects(rects) ==
    << Min({r[1] : r \in rects}), Min({r[2] : r \in rects}),
       Max({r[3] : r \in rects}), Max({r[4] : r \in rects}) >>

(***************************************************************************)
(* The rings of a polygon, read off the grid spanned by its rectangles'    *)
(* coordinates.                                                            *)
(***************************************************************************)
\* the quadrant to the upper right of the point (x, y) lies in the region
FilledNE(rects, x, y) ==
    \E r \in rects : r[1] <= x /\ x < r[3] /\ r[2] <= y /\ y < r[4]

FilledNW(rects, x, y) ==
    \E r \in rects : r[1] < x /\ x <= r[3] /\ r[2] <= y /\ y < r[4]

FilledSE(rects, x, y) ==
    \E r \in rects : r[1] <= x /\ x < r[3] /\ r[2] < y /\ y <= r[4]

FilledSW(rects, x, y) ==
    \E r \in rects : r[1] < x /\ x <= r[3] /\ r[2] < y /\ y <= r[4]

XS(rects) == {r[1] : r \in rects} \cup {r[3] : r \in rects}

YS(rects) == {r[2] : r \in rects} \cup {r[4] : r \in rects}

\* the number of ring vertices at the grid point (x, y)
CornersAt(rects, x, y) ==
    LET ne == FilledNE(rects, x, y)
        nw == FilledNW(rects, x, y)
        se == FilledSE(rects, x, y)
        sw == FilledSW(rects, x, y)
        n  == (IF ne THEN 1 ELSE 0) + (IF nw THEN 1 ELSE 0)
              + (IF se THEN 1 ELSE 0) + (IF sw THEN 1 ELSE 0)
    IN IF n = 1 \/ n = 3 THEN 1
       ELSE IF n = 2 /\ ((ne /\ sw) \/ (nw /\ se)) THEN 2
       ELSE 0

\* the number of vertices of all rings of the region
CountCorners(at) ==
    Cardinality({p \in DOMAIN at : at[p] >= 1})
    + Cardinality({p \in DOMAIN at : at[p] = 2})

Corners(rects) ==
    CountCorners([p \in XS(rects) \X YS(rects) |-> CornersAt(rects, p[1], p[2])])

RECURSIVE SortInts(_)
SortInts(S) == IF S = {} THEN <<>> ELSE <<Min(S)>> \o SortInts(S \ {Min(S)})

\* The empty cells of the grid spanned by the coordinates xs and ys.  Cell
\* <<i, j>> lies right of the i-th x coordinate and above the j-th y
\* coordinate; row and column 0 lie outside the region.
EmptyCells(rects, xs, ys) ==
    {c \in (0..Len(xs)) \X (0..Len(ys)) :
        \/ c[1] = 0 \/ c[2] = 0
        \/ ~FilledNE(rects, xs[c[1]], ys[c[2]])}

CellsAdjacent(cells) ==
    {p \in cells \X cells : Abs(p[1][1] - p[2][1]) + Abs(p[1][2] - p[2][2]) = 1}

\* the classes of empty cells that the outside cell <<0, 0>> does not reach
Enclosed(empty, adj) == Components(empty \ Flood({<<0, 0>>}, empty, adj), adj)

EnclosedCells(empty) == Enclosed(empty, CellsAdjacent(empty))

HoleRects(xs, ys, holes) ==
    [k \in 1..Len(holes) |->
        {<<xs[c[1]], ys[c[2]], xs[c[1] + 1], ys[c[2] + 1]>> : c \in holes[k]}]

HolesOnGrid(rects, xs, ys) ==
    HoleRects(xs, ys, EnclosedCells(EmptyCells(rects, xs, ys)))

\* The holes of the region, leftmost first, each as the rectangles of the
\* grid cells it is made of.
HolesOf(rects) == HolesOnGrid(rects, SortInts(XS(rects)), SortInts(YS(rects)))

RECURSIVE SumCoords(_)
SumCoords(rings) ==
    IF rings = <<>> THEN 0 ELSE Head(rings).coords + SumCoords(Tail(rings))

\* polygon.interiors: each ring with its box, its area and its number of
\* coordinates.  A ring repeats its first point as its last.
Interiors(holes) ==
    [k \in 1..Len(holes) |->
        [box |-> BoundsOfRects(holes[k]),
         area |-> Area(holes[k]),
         coords |-> Corners(holes[k]) + 1]]

\* polygon.exterior.coords has the vertices no interior ring has, and the
\* first one again
PolygonWithRings(rects, interiors) ==
    [kind |-> "Polygon", rects |-> rects,
     exterior |-> (Corners(rects) - (SumCoords(interiors) - Len(interiors))) + 1,
     interiors |-> interiors]

\* A Polygon: its region (rects), the number of coordinates of its exterior
\* ring, and its interior rings.  Fewer than four rectangles enclose nothing.
Polygon(rects) ==
    PolygonWithRings(rects, Interiors(IF Cardinality(rects) < 4 THEN <<>>
                                      ELSE HolesOf(rects)))

LineString(pts) == [kind |-> "LineString", pts |-> pts]

\* `line.width = 3`: the attribute the export writes as the width of a path
WithWidth(line, width) == [kind |-> "LineString", pts |-> line.pts, width |-> width]

\* hasattr(shapely_object, 'width')
HasWidth(shapely_object) == "width" \in DOMAIN shapely_object

Point(p) == [kind |-> "Point", pts |-> <<p>>]

MultiPolygon(rects) == [kind |-> "MultiPolygon", rects |-> rects]

\* type(obj) == shapely.geometry.Polygon
IsPolygon(s) == s.kind = "Polygon"

\* isinstance(shape, (LinearRing, LineString))
IsLine(s) == s.kind = "LineString"

\* obj.bounds: (minx, miny, maxx, maxy), () for an empty geometry
Bounds(s) ==
    IF s.kind \in {"LineString", "Point"}
    THEN IF Len(s.pts) = 0 THEN <<>>
         ELSE << Min({p[1] : p \in Range(s.pts)}), Min({p[2] : p \in Range(s.pts)}),
                 Max({p[1] : p \in Range(s.pts)}), Max({p[2] : p \in Range(s.pts)}) >>
    ELSE IF s.rects = {} THEN <<>> ELSE BoundsOfRects(s.rects)

\* ring.centroid.coords[0] of an interior ring: the centre of its box (the
\* holes of the polygons built here are rectangles)
Centroid(interior) ==
    << (interior.box[1] + interior.box[3]) \div 2,
       (interior.box[2] + interior.box[4]) \div 2 >>

(***************************************************************************)
(* shapely's set operations, on the values above.                          *)
(***************************************************************************)
ClipRect(r, b) ==
    << Max({r[1], b[1]}), Max({r[2], b[2]}), Min({r[3], b[3]}), Min({r[4], b[4]}) >>

EdgeRelation(rects) == {p \in rects \X rects : RectsShareEdge(p[1], p[2])}

\* The polygons a set of rectangles forms: its edge-connected classes.
Polygons(comps) == [k \in 1..Len(comps) |-> Polygon(comps[k])]

PolygonsOf(rects) == Polygons(Components(rects, EdgeRelation(rects)))

IsConnected(rects) == Flood({CHOOSE r \in rects : TRUE}, rects, EdgeRelation(rects)) = rects

\* obj.intersection(cut_box), decomposed as its .geoms are: the polygon parts,
\* then the line parts.  A line part arises where the polygon only leans on
\* the box with an edge.
Intersection(obj, b) ==
    IF IsPolygon(obj)
    THEN LET inside  == {ClipRect(r, b) : r \in {q \in obj.rects : RectsOverlap(q, b)}}
             leaning == {r \in obj.rects :
                            /\ ~RectsOverlap(r, b)
                            /\ RectsShareEdge(r, b)
                            /\ ~\E q \in inside : RectsShareEdge(r, q)}
             segs    == SetToSeq({ClipRect(r, b) : r \in leaning})
         IN PolygonsOf(inside)
            \o [k \in 1..Len(segs) |->
                   LineString(<< <<segs[k][1], segs[k][2]>>, <<segs[k][3], segs[k][4]>> >>)]
    ELSE LET y   == obj.pts[1][2]
             lo  == Max({obj.pts[1][1], b[1]})
             hi  == Min({obj.pts[Len(obj.pts)][1], b[3]})
             mid == SelectSeq(obj.pts, LAMBDA p : lo < p[1] /\ p[1] < hi)
         IN IF y < b[2] \/ y > b[4] \/ lo > hi THEN <<>>
            ELSE IF lo = hi THEN << Point(<<lo, y>>) >>
            ELSE << LineString(<< <<lo, y>> >> \o mid \o << <<hi, y>> >>) >>

\* polygon.touches(polygon2): the boundaries meet, the interiors do not
Touches(a, b) ==
    /\ \E r \in a.rects : \E q \in b.rects : RectsMeet(r, q)
    /\ ~\E r \in a.rects : \E q \in b.rects : RectsOverlap(r, q)

\* polygon.union(polygon2), of two polygons that do not overlap
UnaryUnion(rects) ==
    IF IsConnected(rects) THEN Polygon(rects) ELSE MultiPolygon(rects)

Union(a, b) == UnaryUnion(a.rects \cup b.rects)

(***************************************************************************)
(* geometry/shapely_adapter.py                                             *)
(***************************************************************************)
RECURSIVE shapely_collection_to_basic_objs(_)
shapely_collection_to_basic_objs(collection) ==
    IF collection = <<>> THEN <<>>
    ELSE LET col == Head(collection)
         IN (IF col.kind = "MultiPolygon" THEN PolygonsOf(col.rects) ELSE <<col>>)
            \o shapely_collection_to_basic_objs(Tail(collection))

_safety_overlap == 1

\* DropLines keeping the first polygon only
DropAllButOne(obj, out_polygons) ==
    IF IsPolygon(obj)
    THEN SubSeq(SelectSeq(out_polygons, LAMBDA shape : ~IsLine(shape)), 1, 1)
    ELSE out_polygons

\* The lines a polygon may not be cut into are dropped; everything else stays.
DropLines(obj, out_polygons) ==
    IF IsPolygon(obj) THEN SelectSeq(out_polygons, LAMBDA shape : ~IsLine(shape))
    ELSE out_polygons

\* A cut axis: x_axis=None is NoAxis, x_axis=v is Axis(v).
NoAxis == <<>>

Axis(v) == <<v>>

\* bbox: obj.bounds, widened by _safety_overlap on every side
PaddedBounds(b) ==
    << b[1] - _safety_overlap, b[2] - _safety_overlap,
       b[3] + _safety_overlap, b[4] + _safety_overlap >>

\* cut_center: bbox.mean(0) if no axis is given, else the axes given
CutCenter(bbox, x_axis, y_axis) ==
    IF x_axis = NoAxis /\ y_axis = NoAxis
    THEN << Axis((bbox[1] + bbox[3]) \div 2), Axis((bbox[2] + bbox[4]) \div 2) >>
    ELSE << x_axis, y_axis >>

\* (bbox[1] - bbox[0]).argmax() == 0
XIsLargest(bbox) == (bbox[3] - bbox[1]) >= (bbox[4] - bbox[2])

\* <<x_axis, y_axis>> after `if not ((x_axis is None) ^ (y_axis is None))`
CutAxes(bbox, cut_center, x_axis, y_axis, other_side) ==
    IF (x_axis = NoAxis) = (y_axis = NoAxis)
    THEN IF XIsLargest(bbox) # other_side
         THEN << cut_center[1], NoAxis >>
         ELSE << NoAxis, cut_center[2] >>
    ELSE << x_axis, y_axis >>

CutBoxes(bbox, x_axis, y_axis) ==
    IF x_axis # NoAxis
    THEN << <<bbox[1], bbox[2], x_axis[1], bbox[4]>>,
            <<x_axis[1], bbox[2], bbox[3], bbox[4]>> >>
    ELSE << <<bbox[1], bbox[2], bbox[3], y_axis[1]>>,
            <<bbox[1], y_axis[1], bbox[3], bbox[4]>> >>

\* the loop `for cut_box in cut_boxes` and the filter after it
CutInto(obj, cut_boxes) ==
    DropLines(obj, Concat([k \in 1..Len(cut_boxes) |-> Intersection(obj, cut_boxes[k])]))

CutAlong(obj, bbox, axes) == CutInto(obj, CutBoxes(bbox, axes[1], axes[2]))

CutInBox(obj, bbox, x_axis, y_axis, other_side) ==
    CutAlong(obj, bbox,
             CutAxes(bbox, CutCenter(bbox, x_axis, y_axis), x_axis, y_axis, other_side))

cut_shapely_object(obj, x_axis, y_axis, other_side) ==
    CutInBox(obj, PaddedBounds(Bounds(obj)), x_axis, y_axis, other_side)

_number_of_points(poly) ==
    IF IsPolygon(poly) THEN poly.exterior + SumCoords(poly.interiors)
    ELSE Len(poly.pts)

\* A budget is the fraction <<numerator, denominator>>: max_points /
\* over_fracture_factor is a true division.
Frac(n, d) == <<n, d>>

\* A number as Python tests it in `if max_points`: 0 is false.
Truthy(v) == v[1] # 0

\* n > v
Exceeds(n, v) == n * v[2] > v[1]

\* the tests heal makes of joined_poly before it appends it
JoinedFits(joined_poly, max_points, max_interior) ==
    /\ IsPolygon(joined_poly)
    /\ Len(joined_poly.interiors) <= max_interior
    /\ ~(max_points # 0 /\ _number_of_points(joined_poly) >= max_points)

\* CanJoin without the tests of the point counts
CanJoinUncounted(polygon, polygon2, max_points, max_interior) ==
    /\ polygon # polygon2
    /\ IsPolygon(polygon2)
    /\ Touches(polygon, polygon2)
    /\ JoinedFits(Union(polygon, polygon2), 0, max_interior)

\* the body of heal's `for j, polygon2 in enumerate(objs)` reaches the append
CanJoin(polygon, polygon2, max_points, max_interior) ==
    /\ polygon # polygon2
    /\ IsPolygon(polygon2)
    /\ ~(max_points # 0
         /\ _number_of_points(polygon) + _number_of_points(polygon2) >= max_points - 2)
    /\ Touches(polygon, polygon2)
    /\ JoinedFits(Union(polygon, polygon2), max_points, max_interior)

FirstOf(js) == IF js = {} THEN 0 ELSE Min(js)

\* the first index j (counted from 1) with which objs[i] is merged, or 0
HealPartner(objs, i, max_points, max_interior) ==
    IF IsPolygon(objs[i])
    THEN FirstOf({j \in 1..Len(objs) : CanJoin(objs[i], objs[j], max_points, max_interior)})
    ELSE 0

Without(objs, i, j) ==
    [k \in 1..(Len(objs) - 2) |->
        objs[k + (IF k >= Min({i, j}) THEN 1 ELSE 0)
               + (IF k + 1 >= Max({i, j}) THEN 1 ELSE 0)]]

\* objs.append(joined_poly) and the two del statements
Merge(objs, i, j) == Without(objs, i, j) \o << Union(objs[i], objs[j]) >>

\* the rest of the turn of `for i, polygon in enumerate(objs)`, once the inner
\* loop has found j
HealJoin(h, i, j) ==
    IF j = 0 THEN [h EXCEPT !.i = i]
    ELSE [h EXCEPT !.i = i, !.objs = Merge(h.objs, i, j), !.segments_joined = TRUE]

\* HealStep without `while segments_joined`: heal returns after one pass
HealStepOnce(h, max_points, max_interior) ==
    IF h.i >= Len(h.objs)
    THEN [h EXCEPT !.returned = TRUE]
    ELSE HealJoin(h, h.i + 1, HealPartner(h.objs, h.i + 1, max_points, max_interior))

\* One turn of heal's outer `for i, polygon in enumerate(objs)`, or the test
\* of `while segments_joined` once the list is exhausted.  h.i is the number
\* of elements the enumeration has handed out.
HealStep(h, max_points, max_interior) ==
    IF h.i >= Len(h.objs)
    THEN IF h.segments_joined
         THEN [h EXCEPT !.segments_joined = FALSE, !.i = 0]
         ELSE [h EXCEPT !.returned = TRUE]
    ELSE HealJoin(h, h.i + 1, HealPartner(h.objs, h.i + 1, max_points, max_interior))

HealEnter(objs) ==
    [objs |-> objs, i |-> 0, segments_joined |-> FALSE, returned |-> FALSE]

RECURSIVE HealLoop(_, _, _)
HealLoop(h, max_points, max_interior) ==
    IF h.returned THEN h.objs
    ELSE HealLoop(HealStep(h, max_points, max_interior), max_points, max_interior)

heal(objs, max_points, max_interior) ==
    HealLoop(HealEnter(objs), max_points, max_interior)

\* The three branches of fracture's loop body.
NeedsHoleCut(current_polygon, max_interior) ==
    IsPolygon(current_polygon) /\ Len(current_polygon.interiors) > max_interior

\* NeedsPointCut with two points of slack
NeedsPointCutLate(current_polygon, max_points) ==
    /\ Truthy(max_points)
    /\ Exceeds(_number_of_points(current_polygon), Frac(max_points[1] + 2 * max_points[2], max_points[2]))
    /\ max_points[1] > 0

NeedsPointCut(current_polygon, max_points) ==
    /\ Truthy(max_points)
    /\ Exceeds(_number_of_points(current_polygon), max_points)
    /\ max_points[1] > 0

Pop(seq, k) == SubSeq(seq, 1, k - 1) \o SubSeq(seq, k + 1, Len(seq))

\* out_polygons.pop(done_counter) and out_polygons.extend(extended_shapes)
Recut(f, shapes) ==
    [f EXCEPT !.out_polygons = Pop(@, f.done_counter + 1)
                               \o shapely_collection_to_basic_objs(shapes)]

\* max_points_poly if type(current_polygon) == Polygon else max_points_line
BudgetOf(current_polygon, max_points_poly, max_points_line) ==
    IF IsPolygon(current_polygon) THEN max_points_poly ELSE max_points_line

FractureBody(f, current_polygon, max_points, max_interior) ==
    IF NeedsHoleCut(current_polygon, max_interior)
    THEN Recut(f, cut_shapely_object(current_polygon,
                                     Axis(Centroid(current_polygon.interiors[1])[1]),
                                     Axis(Centroid(current_polygon.interiors[1])[2]),
                                     FALSE))
    ELSE IF NeedsPointCut(current_polygon, max_points)
    THEN Recut(f, cut_shapely_object(current_polygon, NoAxis, NoAxis, FALSE))
    ELSE [f EXCEPT !.done_counter = @ + 1]

\* One turn of fracture's `while done_counter < len(out_polygons)`.
FractureStep(f, max_points_poly, max_points_line, max_interior) ==
    FractureBody(f, f.out_polygons[f.done_counter + 1],
                 BudgetOf(f.out_polygons[f.done_counter + 1],
                          max_points_poly, max_points_line),
                 max_interior)

BoxIsEven(b) == (b[1] + b[3]) % 2 = 0 /\ (b[2] + b[4]) % 2 = 0

CutOf(current_polygon, max_points, max_interior) ==
    IF NeedsHoleCut(current_polygon, max_interior)
    THEN BoxIsEven(current_polygon.interiors[1].box)
    ELSE IF NeedsPointCut(current_polygon, max_points)
    THEN BoxIsEven(Bounds(current_polygon))
    ELSE TRUE

\* The coordinate of the next cut is an integer.  The code cuts at any real
\* coordinate; the model follows a call for as long as its cuts are integers.
CutIsExact(f, max_points_poly, max_points_line, max_interior) ==
    CutOf(f.out_polygons[f.done_counter + 1],
          BudgetOf(f.out_polygons[f.done_counter + 1], max_points_poly, max_points_line),
          max_interior)

FractureEnter(obj) == [out_polygons |-> <<obj>>, done_counter |-> 0]

FractureRunning(f) == f.done_counter < Len(f.out_polygons)

RECURSIVE FractureLoop(_, _, _, _)
FractureLoop(f, max_points_poly, max_points_line, max_interior) ==
    IF ~FractureRunning(f) THEN f.out_polygons
    ELSE FractureLoop(FractureStep(f, max_points_poly, max_points_line, max_interior),
                      max_points_poly, max_points_line, max_interior)

fracture(obj, max_points_poly, max_points_line, max_interior) ==
    FractureLoop(FractureEnter(obj), max_points_poly, max_points_line, max_interior)

\* fracture_intelligently heals exactly when over_fracture_factor >= 1
Heals(over_fracture_factor) == over_fracture_factor >= 1

fracture_intelligently(obj, max_points, max_points_line, over_fracture_factor) ==
    IF Heals(over_fracture_factor)
    THEN heal(fracture(obj, Frac(max_points, over_fracture_factor),
                       Frac(max_points_line, 1), 0),
              max_points, 0)
    ELSE fracture(obj, Frac(max_points, 1), Frac(max_points_line, 1), 0)

\* bounds_union(bound_list)
bounds_union(bound_list) ==
    << Min({bound_list[k][1] : k \in 1..Len(bound_list)}),
       Min({bound_list[k][2] : k \in 1..Len(bound_list)}),
       Max({bound_list[k][3] : k \in 1..Len(bound_list)}),
       Max({bound_list[k][4] : k \in 1..Len(bound_list)}) >>

\* An angle is a number of quarter turns: np.cos and np.sin are exact on it.
Cos(rotation) ==
    CASE rotation % 4 = 0 -> 1
      [] rotation % 4 = 1 -> 0
      [] rotation % 4 = 2 -> -1
      [] rotation % 4 = 3 -> 0

Sin(rotation) ==
    CASE rotation % 4 = 0 -> 0
      [] rotation % 4 = 1 -> 1
      [] rotation % 4 = 2 -> 0
      [] rotation % 4 = 3 -> -1

\* bounds = scale * np.array(bounds).reshape(2, 2) + origin, with scale = 1
Shifted(bounds, origin) ==
    << bounds[1] + origin[1], bounds[2] + origin[2],
       bounds[3] + origin[1], bounds[4] + origin[2] >>

\* The branch `if rotation != 0` of transform_bounds: new_center -
\* new_half_size and new_center + new_half_size, where center is the centre
\* of the shifted bounds.  Twice the centre and twice the half size are
\* integers of one parity, so the halves are exact.
RotatedBounds(bounds, c, s) ==
    << ((c * (bounds[1] + bounds[3]) - s * (bounds[2] + bounds[4]))
        - (Abs(c) * Abs(bounds[3] - bounds[1]) + Abs(s) * Abs(bounds[4] - bounds[2]))) \div 2,
       ((s * (bounds[1] + bounds[3]) + c * (bounds[2] + bounds[4]))
        - (Abs(s) * Abs(bounds[3] - bounds[1]) + Abs(c) * Abs(bounds[4] - bounds[2]))) \div 2,
       ((c * (bounds[1] + bounds[3]) - s * (bounds[2] + bounds[4]))
        + (Abs(c) * Abs(bounds[3] - bounds[1]) + Abs(s) * Abs(bounds[4] - bounds[2]))) \div 2,
       ((s * (bounds[1] + bounds[3]) + c * (bounds[2] + bounds[4]))
        + (Abs(s) * Abs(bounds[3] - bounds[1]) + Abs(c) * Abs(bounds[4] - bounds[2]))) \div 2 >>

transform_bounds(bounds, origin, rotation) ==
    IF rotation # 0
    THEN RotatedBounds(Shifted(bounds, origin), Cos(rotation), Sin(rotation))
    ELSE Shifted(bounds, origin)

(***************************************************************************)
(* geometry/chip.py: class Cell.  A Cell object is a record of the heap,   *)
(* a sequence indexed by object identity.                                  *)
(***************************************************************************)
\* Cell.__init__
Cell(name) ==
    [name |-> name, cells |-> <<>>, layer_dict |-> <<>>, dlw_data |-> {},
     _bounds |-> None]

\* A geometry with nothing in it, as shapely.geometry.GeometryCollection()
EmptyGeometry == [kind |-> "GeometryCollection", rects |-> {}]

\* shapely.geometry.box(minx, miny, maxx, maxy)
box(b) == Polygon({b})

\* geo.is_empty
IsEmpty(geo) == Bounds(geo) = <<>>

\* The keys of layer_dict in insertion order.  A layer key is <<layer>> for
\* an integer and <<layer, datatype>> for a pair.
LayerKeys(self) == [k \in 1..Len(self.layer_dict) |-> self.layer_dict[k].layer]

\* self.layer_dict.get(layer, [])
LayerGet(self, layer) ==
    IF \E k \in 1..Len(self.layer_dict) : self.layer_dict[k].layer = layer
    THEN self.layer_dict[CHOOSE k \in 1..Len(self.layer_dict) :
                             self.layer_dict[k].layer = layer].geometries
    ELSE <<>>

\* layer_dict after `self.layer_dict[layer] += geometry`
LayerDictAdd(layer_dict, layer, geometry) ==
    IF \E k \in 1..Len(layer_dict) : layer_dict[k].layer = layer
    THEN [k \in 1..Len(layer_dict) |->
             IF layer_dict[k].layer = layer
             THEN [layer_dict[k] EXCEPT !.geometries = @ \o geometry]
             ELSE layer_dict[k]]
    ELSE Append(layer_dict, [layer |-> layer, geometries |-> geometry])

\* `layers or self.layer_dict.keys()`; layers is None or Some(list)
LayersOrKeys(self, layers) ==
    IF layers = None \/ layers[1] = <<>> THEN LayerKeys(self) ELSE layers[1]

\* the geometries get_bounds goes through, layer by layer
GeometriesOn(self, layer_list) ==
    Concat([k \in 1..Len(layer_list) |-> LayerGet(self, layer_list[k])])

BoundsOfAll(geometries) == [k \in 1..Len(geometries) |-> Bounds(geometries[k])]

\* the list `bounds` after the loop over the layers: `if geo_bounds != ()`
GeoBounds(self, layers) ==
    SelectSeq(BoundsOfAll(GeometriesOn(self, LayersOrKeys(self, layers))),
              LAMBDA geo_bounds : geo_bounds # <<>>)

\* bounds_union(bounds) if len(bounds) > 0 else None
UnionOrNone(bounds) == IF Len(bounds) > 0 THEN bounds_union(bounds) ELSE None

\* the else branch of get_bounds: the bounds are computed, and cached if
\* layers is None
ComputeOwn(heap, self, layers, bounds) ==
    [heap |-> IF layers = None
              THEN [heap EXCEPT ![self]._bounds = UnionOrNone(bounds)]
              ELSE heap,
     bounds |-> bounds]

\* get_bounds up to the loop over the children: the heap and the list bounds
OwnBounds(heap, self, layers) ==
    IF layers = None /\ heap[self]._bounds # None
    THEN [heap |-> heap, bounds |-> << heap[self]._bounds >>]
    ELSE ComputeOwn(heap, self, layers, GeoBounds(heap[self], layers))

\* cell['angle'] or 0
AngleOrZero(angle) == IF angle = None THEN 0 ELSE angle[1]

\* one turn of `for cell in self.cells`, got being what the child returned
AddChildBounds(acc, cell, got) ==
    [heap |-> got.heap,
     bounds |-> IF got.value # None
                THEN Append(acc.bounds,
                            transform_bounds(got.value, cell.origin,
                                             AngleOrZero(cell.angle)))
                ELSE acc.bounds]

GotBounds(acc) == [heap |-> acc.heap, value |-> UnionOrNone(acc.bounds)]

RECURSIVE get_bounds(_, _, _)
RECURSIVE ChildrenBounds(_, _, _, _)
\* `for cell in self.cells`, from the k-th child on
ChildrenBounds(acc, self, layers, k) ==
    IF k > Len(acc.heap[self].cells) THEN acc
    ELSE ChildrenBounds(
             AddChildBounds(acc, acc.heap[self].cells[k],
                            get_bounds(acc.heap, acc.heap[self].cells[k].cell, layers)),
             self, layers, k + 1)

\* Cell.get_bounds: the value returned, and the heap with the caches it set
get_bounds(heap, self, layers) ==
    GotBounds(ChildrenBounds(OwnBounds(heap, self, layers), self, layers, 1))

RECURSIVE get_dlw_data(_, _)
\* Cell.get_dlw_data: the cell's own entries <<dlw_type, dlw_id, data>> and
\* those of its children, their ids prefixed with the child's name
get_dlw_data(heap, self) ==
    heap[self].dlw_data
    \cup UNION { { <<d[1], <<heap[heap[self].cells[k].cell].name>> \o d[2], d[3]>> :
                     d \in get_dlw_data(heap, heap[self].cells[k].cell) } :
                 k \in 1..Len(heap[self].cells) }

\* [cell_dict['cell'].name for cell_dict in self.cells]
ChildNames(heap, self) ==
    {heap[heap[self].cells[k].cell].name : k \in 1..Len(heap[self].cells)}

\* the test at the head of add_cell
AddCellRaises(heap, self, cell) ==
    get_dlw_data(heap, cell) # {} /\ heap[cell].name \in ChildNames(heap, self)

\* the dict add_cell appends to self.cells
Instance(cell, origin, angle, columns, rows, spacing) ==
    [cell |-> cell, origin |-> origin, angle |-> angle, magnification |-> None,
     x_reflection |-> FALSE, columns |-> columns, rows |-> rows, spacing |-> spacing]

\* the cells a cell refers to, directly or through others
RECURSIVE Descendants(_, _)
Children(heap, self) == {heap[self].cells[k].cell : k \in 1..Len(heap[self].cells)}

Descendants(heap, self) ==
    Children(heap, self) \cup UNION {Descendants(heap, c) : c \in Children(heap, self)}

(***************************************************************************)
(* geometry/chip.py: Cell.get_fractured_layer_dict                         *)
(***************************************************************************)
\* fracture_intelligently(geo, ...) for geo in geometry if not geo.is_empty
FractureAll(geometry, max_points, max_line_points) ==
    Concat([k \in 1..Len(geometry) |->
               IF IsEmpty(geometry[k]) THEN <<>>
               ELSE fracture_intelligently(geometry[k], max_points, max_line_points, 1)])

\* the chain of the fractured geometries of one layer
FracturedLayer(geometries, max_points, max_line_points) ==
    Concat([k \in 1..Len(geometries) |->
               FractureAll(shapely_collection_to_basic_objs(<< geometries[k] >>),
                           max_points, max_line_points)])

get_fractured_layer_dict(self, max_points, max_line_points) ==
    [k \in 1..Len(self.layer_dict) |->
        [layer |-> self.layer_dict[k].layer,
         geometries |-> FracturedLayer(self.layer_dict[k].geometries,
                                       max_points, max_line_points)]]

(***************************************************************************)
(* export/gdsii_export.py.  A stream is the sequence of its records        *)
(* <<length, tag, data>>.                                                  *)
(***************************************************************************)
\* the platform the program runs on
VARIABLE build

\* A real number is sign * (its hexadecimal digits, read as an integer) *
\* 16^p16, the first digit not 0; zero has no digits.  A float is such a
\* number of at most 14 digits.
HexDigit == 16

RECURSIVE HexDigits(_)
HexDigits(n) == IF n = 0 THEN <<>> ELSE Append(HexDigits(n \div HexDigit), n % HexDigit)

Real(sign, n, p16) == [sign |-> IF n = 0 THEN 0 ELSE sign, digits |-> HexDigits(n), p16 |-> p16]

\* the number of hexadecimal digits of the mantissa of a REAL_8
MantissaDigits == 14

\* int((math.log(abs(value), 16) + 1) // 1)
Exponent(value) == Len(value.digits) + value.p16

\* int(abs(value) * 16. ** (14 - exponent)), as hexadecimal digits: the
\* digits of the value from its first on, cut after the 14th
Mantissa(value) ==
    [k \in 1..MantissaDigits |-> IF k <= Len(value.digits) THEN value.digits[k] ELSE 0]

\* (0b1 if value < 0 else 0b0) + exponent + 64: what is shifted to the first byte
FirstByteAdded(value) == (IF value.sign < 0 THEN 1 ELSE 0) + Exponent(value) + 64

\* the 8 bytes, the first one first
_real_to_8byte(value) ==
    IF value.digits = <<>> THEN [k \in 1..8 |-> 0]
    ELSE << FirstByteAdded(value) >>
         \o [k \in 1..7 |-> HexDigit * Mantissa(value)[2 * k - 1] + Mantissa(value)[2 * k]]

\* name + '\0' * (len(name) % 2): the name and the number of NULs after it
Padded(name) == << name, Len(name) % 2 >>

\* the name of a reference without a NUL
PaddedRefNever(name) == << name, 0 >>

\* name + '\0' if len(name) % 2 != 0 else name
PaddedRef(name) == IF Len(name) % 2 # 0 THEN << name, 1 >> ELSE << name, 0 >>

PaddedLen(name) == Len(name) + (Len(name) % 2)

\* layer if isinstance(layer, int) else layer[0]
LayerOf(layer) == layer[1]

\* DatatypeOf with datatype 0 for a layer given as an integer
DatatypeZero(layer) == IF Len(layer) = 1 THEN 0 ELSE layer[2]

\* layer if isinstance(layer, int) else layer[1]
DatatypeOf(layer) == IF Len(layer) = 1 THEN layer[1] ELSE layer[2]

\* the largest value of a 32-bit signed integer; the smallest is -Int32Max - 1
Int32Max == 2147483647

\* the platforms: what a conversion of a float that is out of the range of
\* the integer type gives depends on the platform
Builds == {"x86_64", "aarch64"}

\* astype('>i4') of a float beyond the range of 32 bits, above it or below:
\* the cast is undefined in C; cvttsd2si gives the smallest integer, fcvtzs
\* the nearest one
OutOfRange(above, platform) ==
    IF platform = "aarch64" /\ above THEN Int32Max ELSE -Int32Max - 1

\* np.round of m / d for 0 <= m, to the nearest integer, a half to the even
\* one of its neighbours; base is the integer that is added to it
RoundHalfEven(base, m, d) ==
    IF 2 * (m % d) < d THEN m \div d
    ELSE IF 2 * (m % d) > d THEN (m \div d) + 1
    ELSE IF (base + (m \div d)) % 2 = 0 THEN m \div d ELSE (m \div d) + 1

\* np.round(c * grid_steps_per_unit).astype('>i4') for the coordinate
\* c = n / d = (n \div d) + (n % d) / d
QuantizedCoordinate(n, d, grid_steps_per_unit, platform) ==
    IF (n \div d) > Int32Max \div grid_steps_per_unit THEN OutOfRange(TRUE, platform)
    ELSE IF (n \div d) < -(Int32Max \div grid_steps_per_unit) THEN OutOfRange(FALSE, platform)
    ELSE IF (n \div d) * grid_steps_per_unit
              > Int32Max - RoundHalfEven((n \div d) * grid_steps_per_unit,
                                         (n % d) * grid_steps_per_unit, d)
    THEN OutOfRange(TRUE, platform)
    ELSE (n \div d) * grid_steps_per_unit
         + RoundHalfEven((n \div d) * grid_steps_per_unit, (n % d) * grid_steps_per_unit, d)

\* np.round(np.array(coords) * grid_steps_per_unit).astype('>i4')
Quantized(coords, grid_steps_per_unit) ==
    [k \in 1..Len(coords) |->
        << QuantizedCoordinate(coords[k][1], 1, grid_steps_per_unit, build),
           QuantizedCoordinate(coords[k][2], 1, grid_steps_per_unit, build) >>]

\* the largest number of points of one XY record
XYBlock == 8191

RECURSIVE XYRecordsOverlapping(_, _)
\* blocks that begin with the last point of the block before
XYRecordsOverlapping(xy, start) ==
    IF start >= Len(xy) THEN <<>>
    ELSE << << 4 + 8 * (Min({start + XYBlock, Len(xy)}) - start), "XY",
               SubSeq(xy, start + 1, Min({start + XYBlock, Len(xy)})) >> >>
         \o XYRecordsOverlapping(xy, start + XYBlock - 1)

RECURSIVE XYRecords(_, _)
\* `for start in range(0, xy.shape[0], 8191)`, start counted from 0
XYRecords(xy, start) ==
    IF start >= Len(xy) THEN <<>>
    ELSE << << 4 + 8 * (Min({start + XYBlock, Len(xy)}) - start), "XY",
               SubSeq(xy, start + 1, Min({start + XYBlock, Len(xy)})) >> >>
         \o XYRecords(xy, start + XYBlock)

\* shapely_object.exterior.coords of a box, as shapely orders them
ExteriorCoords(shapely_object) ==
    << << BoundsOfRects(shapely_object.rects)[3], BoundsOfRects(shapely_object.rects)[2] >>,
       << BoundsOfRects(shapely_object.rects)[3], BoundsOfRects(shapely_object.rects)[4] >>,
       << BoundsOfRects(shapely_object.rects)[1], BoundsOfRects(shapely_object.rects)[4] >>,
       << BoundsOfRects(shapely_object.rects)[1], BoundsOfRects(shapely_object.rects)[2] >>,
       << BoundsOfRects(shapely_object.rects)[3], BoundsOfRects(shapely_object.rects)[2] >> >>

\* WIDTH, for a line that has the attribute
WidthRecords(shapely_object, grid_steps_per_unit) ==
    IF HasWidth(shapely_object)
    THEN << <<8, "WIDTH", shapely_object.width * grid_steps_per_unit>> >>
    ELSE <<>>

\* every shape that is no Polygon written as a path
ShapeRecordsAllPaths(layer, shapely_object, grid_steps_per_unit) ==
    IF IsPolygon(shapely_object)
    THEN << <<4, "BOUNDARY", <<>> >>,
            <<6, "LAYER", LayerOf(layer)>>,
            <<6, "DATATYPE", DatatypeOf(layer)>> >>
         \o XYRecords(Quantized(ExteriorCoords(shapely_object)
                                \o << ExteriorCoords(shapely_object)[1] >>,
                                grid_steps_per_unit), 0)
         \o << <<4, "ENDEL", <<>> >> >>
    ELSE << <<4, "PATH", <<>> >>,
            <<6, "LAYER", LayerOf(layer)>>,
            <<6, "DATATYPE", DatatypeOf(layer)>> >>
         \o WidthRecords(shapely_object, grid_steps_per_unit)
         \o XYRecords(Quantized(shapely_object.pts, grid_steps_per_unit), 0)
         \o << <<4, "ENDEL", <<>> >> >>

\* the element a Polygon or a LineString is written as; nothing for any
\* other shape
ShapeRecords(layer, shapely_object, grid_steps_per_unit) ==
    IF IsPolygon(shapely_object)
    THEN << <<4, "BOUNDARY", <<>> >>,
            <<6, "LAYER", LayerOf(layer)>>,
            <<6, "DATATYPE", DatatypeOf(layer)>> >>
         \o XYRecords(Quantized(ExteriorCoords(shapely_object)
                                \o << ExteriorCoords(shapely_object)[1] >>,
                                grid_steps_per_unit), 0)
         \o << <<4, "ENDEL", <<>> >> >>
    ELSE IF IsLine(shapely_object)
    THEN << <<4, "PATH", <<>> >>,
            <<6, "LAYER", LayerOf(layer)>>,
            <<6, "DATATYPE", DatatypeOf(layer)>> >>
         \o WidthRecords(shapely_object, grid_steps_per_unit)
         \o XYRecords(Quantized(shapely_object.pts, grid_steps_per_unit), 0)
         \o << <<4, "ENDEL", <<>> >> >>
    ELSE <<>>

\* `for shapely_object in polygons` for one layer
LayerRecords(layer, polygons, grid_steps_per_unit) ==
    Concat([k \in 1..Len(polygons) |->
               ShapeRecords(layer, polygons[k], grid_steps_per_unit)])

\* `for layer, polygons in cell.get_fractured_layer_dict(...).items()`
AllLayerRecords(fractured_layer_dict, grid_steps_per_unit) ==
    Concat([k \in 1..Len(fractured_layer_dict) |->
               LayerRecords(fractured_layer_dict[k].layer,
                            fractured_layer_dict[k].geometries, grid_steps_per_unit)])

\* not (ref['columns'] == 1 and ref['rows'] == 1 and not ref['spacing'])
IsAref(ref) == ~(ref.columns = 1 /\ ref.rows = 1 /\ ref.spacing = None)

\* np.rad2deg(ref['angle']) % 360. for an angle of q quarter turns
Degrees(q) == Real(1, (q * 90) % 360, 0)

\* the records of a transformation with the angle before the magnification
TransformRecordsAngleFirst(ref) ==
    IF ref.angle # None \/ ref.magnification # None \/ ref.x_reflection
    THEN << <<6, "STRANS", IF ref.x_reflection THEN 32768 ELSE 0>> >>
         \o (IF ref.angle # None
             THEN << <<12, "ANGLE", _real_to_8byte(Degrees(ref.angle[1]))>> >> ELSE <<>>)
         \o (IF ref.magnification # None
             THEN << <<12, "MAG", _real_to_8byte(ref.magnification[1])>> >> ELSE <<>>)
    ELSE <<>>

\* STRANS, MAG and ANGLE of a reference; the angle in degrees
TransformRecords(ref) ==
    IF ref.angle # None \/ ref.magnification # None \/ ref.x_reflection
    THEN << <<6, "STRANS", IF ref.x_reflection THEN 32768 ELSE 0>> >>
         \o (IF ref.magnification # None
             THEN << <<12, "MAG", _real_to_8byte(ref.magnification[1])>> >> ELSE <<>>)
         \o (IF ref.angle # None
             THEN << <<12, "ANGLE", _real_to_8byte(Degrees(ref.angle[1]))>> >> ELSE <<>>)
    ELSE <<>>

\* the XY record of an array with the spacing of one column and of one row
\* as its edges
RefXYPitch(ref, grid_steps_per_unit) ==
    IF IsAref(ref)
    THEN << <<28, "XY",
              Quantized(<< ref.origin,
                           << ref.spacing[1][1] + ref.origin[1], ref.origin[2] >>,
                           << ref.origin[1], ref.spacing[1][2] + ref.origin[2] >> >>,
                        grid_steps_per_unit)>> >>
    ELSE << <<12, "XY", Quantized(<< ref.origin >>, grid_steps_per_unit)>> >>

\* the XY record of a reference: the origin, and for an array its two edges
RefXY(ref, grid_steps_per_unit) ==
    IF IsAref(ref)
    THEN << <<28, "XY",
              Quantized(<< ref.origin,
                           << ref.spacing[1][1] * ref.columns + ref.origin[1], ref.origin[2] >>,
                           << ref.origin[1], ref.spacing[1][2] * ref.rows + ref.origin[2] >> >>,
                        grid_steps_per_unit)>> >>
    ELSE << <<12, "XY", Quantized(<< ref.origin >>, grid_steps_per_unit)>> >>

\* one turn of `for ref in cell.cells`
RefRecords(heap, ref, grid_steps_per_unit) ==
    << <<4, IF IsAref(ref) THEN "AREF" ELSE "SREF", <<>> >>,
       <<4 + Len(heap[ref.cell].name) + PaddedRef(heap[ref.cell].name)[2], "SNAME",
         PaddedRef(heap[ref.cell].name)>> >>
    \o TransformRecords(ref)
    \o (IF IsAref(ref) THEN << <<8, "COLROW", <<ref.columns, ref.rows>> >> >> ELSE <<>>)
    \o RefXY(ref, grid_steps_per_unit)
    \o << <<4, "ENDEL", <<>> >> >>

AllRefRecords(heap, refs, grid_steps_per_unit) ==
    Concat([k \in 1..Len(refs) |-> RefRecords(heap, refs[k], grid_steps_per_unit)])

\* the structure block with the references written before the shapes
_cell_to_gdsii_binary_refs_first(heap, cell, grid_steps_per_unit, max_points, max_line_points, timestamp) ==
    << <<28, "BGNSTR", timestamp \o timestamp>>,
       <<4 + PaddedLen(heap[cell].name), "STRNAME", Padded(heap[cell].name)>> >>
    \o AllRefRecords(heap, heap[cell].cells, grid_steps_per_unit)
    \o AllLayerRecords(get_fractured_layer_dict(heap[cell], max_points, max_line_points),
                       grid_steps_per_unit)
    \o << <<4, "ENDSTR", <<>> >> >>

\* the structure block of one cell
_cell_to_gdsii_binary(heap, cell, grid_steps_per_unit, max_points, max_line_points, timestamp) ==
    << <<28, "BGNSTR", timestamp \o timestamp>>,
       <<4 + PaddedLen(heap[cell].name), "STRNAME", Padded(heap[cell].name)>> >>
    \o AllLayerRecords(get_fractured_layer_dict(heap[cell], max_points, max_line_points),
                       grid_steps_per_unit)
    \o AllRefRecords(heap, heap[cell].cells, grid_steps_per_unit)
    \o << <<4, "ENDSTR", <<>> >> >>

\* A geometry as a worker process receives it: the arguments of pool.map are
\* pickled, and a shapely geometry is pickled as its coordinates; an attribute
\* set on the object is not among them.
Unpickled(geo) ==
    IF HasWidth(geo) THEN [kind |-> geo.kind, pts |-> geo.pts] ELSE geo

\* the cells as a worker process receives them
Pickled(heap) ==
    [c \in 1..Len(heap) |->
        [heap[c] EXCEPT !.layer_dict =
            [l \in 1..Len(@) |->
                [layer |-> @[l].layer,
                 geometries |-> [g \in 1..Len(@[l].geometries) |->
                                    Unpickled(@[l].geometries[g])]]]]]

\* the exceptions of the program
NoError == [type |-> "none", args |-> <<>>]

\* TypeError("'NoneType' object is not subscriptable"): ref['spacing'][0]
\* for a reference without spacing
TypeError(args) == [type |-> "TypeError", args |-> args]

\* AssertionError('GDSII only supports polygons without holes')
HoleError == [type |-> "AssertionError", args |-> <<"holes">>]

\* the fractured shapes of a cell in the order `for layer, polygons` and
\* `for shapely_object in polygons` visit them
FracturedShapes(self, max_points, max_line_points) ==
    Concat([k \in 1..Len(self.layer_dict) |->
               get_fractured_layer_dict(self, max_points, max_line_points)[k].geometries])

\* `if shapely_object.interiors`
HasInteriors(shapely_object) == IsPolygon(shapely_object) /\ Len(shapely_object.interiors) > 0

\* the shape is neither a Polygon nor a LineString
Unsupported(shapely_object) == ~IsPolygon(shapely_object) /\ ~IsLine(shapely_object)

\* the first shape that raises, 0 if none does
RECURSIVE FirstHole(_, _)
FirstHole(shapes, k) ==
    IF k > Len(shapes) THEN 0
    ELSE IF HasInteriors(shapes[k]) THEN k
    ELSE FirstHole(shapes, k + 1)

\* the first reference that raises, 0 if none does: an array reference
\* whose spacing is None
RECURSIVE FirstBadRef(_, _)
FirstBadRef(refs, k) ==
    IF k > Len(refs) THEN 0
    ELSE IF IsAref(refs[k]) /\ refs[k].spacing = None THEN k
    ELSE FirstBadRef(refs, k + 1)

\* the exception _cell_to_gdsii_binary raises for the cell, NoError if it
\* returns
CellError(heap, cell, max_points, max_line_points) ==
    IF FirstHole(FracturedShapes(heap[cell], max_points, max_line_points), 1) # 0
    THEN HoleError
    ELSE IF FirstBadRef(heap[cell].cells, 1) # 0
    THEN TypeError(<<"NoneType", FirstBadRef(heap[cell].cells, 1)>>)
    ELSE NoError

\* the shapes warnings.warn is called for, in the order of the calls: the
\* unsupported ones that are visited before an exception is raised
WarnedShapes(shapes) ==
    SelectSeq(IF FirstHole(shapes, 1) = 0 THEN shapes
              ELSE SubSeq(shapes, 1, FirstHole(shapes, 1) - 1), Unsupported)

CellWarnings(heap, cell, max_points, max_line_points) ==
    [k \in 1..Len(WarnedShapes(FracturedShapes(heap[cell], max_points, max_line_points))) |->
        <<heap[cell].name,
          WarnedShapes(FracturedShapes(heap[cell], max_points, max_line_points))[k].kind>>]

\* what a call of _cell_to_gdsii_binary leaves: the exception it raised or
\* the bytes it returned, and the warnings it issued
CellResult(heap, cell, grid_steps_per_unit, max_points, max_line_points, timestamp) ==
    [raised |-> CellError(heap, cell, max_points, max_line_points),
     binary |-> IF CellError(heap, cell, max_points, max_line_points) # NoError THEN <<>>
                ELSE _cell_to_gdsii_binary(heap, cell, grid_steps_per_unit, max_points,
                                           max_line_points, timestamp),
     warnings |-> CellWarnings(heap, cell, max_points, max_line_points)]

\* AssertionError('Each cell name must be unique, "{}" is used more than once')
AssertionError(name) == [type |-> "AssertionError", args |-> <<name>>]

\* ValueError('Cell name "{cell_name:s}" added multiple times to {self_name:s}.')
\* and ValueError('ID "{:s}" already used')
ValueError(args) == [type |-> "ValueError", args |-> args]

\* Listed for a list that is never looked into
ListedNever(st, c) == FALSE

\* `c['cell'] not in cells`: cells holds objects, compared by identity
Listed(st, c) == c \in Range(st.cells)

\* NameTaken for a list of names that is never looked into
NameTakenNever(heap, st, c) == FALSE

\* `c['cell'].name in cell_names`
NameTaken(heap, st, c) == heap[c].name \in Range(st.cell_names)

\* cells.append(start_cell); cell_names.append(start_cell.name)
Listing(heap, st, start_cell) ==
    [st EXCEPT !.cells = Append(@, start_cell),
               !.cell_names = Append(@, heap[start_cell].name)]

RECURSIVE add_cells_to_unique_list(_, _, _)
RECURSIVE VisitRefs(_, _, _, _)
\* the body of `for c in start_cell.cells` without the test of the name
VisitRefUnnamed(heap, st, c) ==
    IF Listed(st, c) THEN st
    ELSE add_cells_to_unique_list(heap, st, c)

\* the body of `for c in start_cell.cells`
VisitRef(heap, st, c) ==
    IF Listed(st, c) THEN st
    ELSE IF NameTaken(heap, st, c)
    THEN [st EXCEPT !.raised = AssertionError(heap[c].name)]
    ELSE add_cells_to_unique_list(heap, st, c)

\* `for c in start_cell.cells`, from the k-th reference on; an exception
\* ends every loop
VisitRefs(heap, st, start_cell, k) ==
    IF st.raised # NoError \/ k > Len(heap[start_cell].cells) THEN st
    ELSE VisitRefs(heap, VisitRef(heap, st, heap[start_cell].cells[k].cell),
                   start_cell, k + 1)

\* st holds the lists cells and cell_names, and the exception raised
add_cells_to_unique_list(heap, st, start_cell) ==
    VisitRefs(heap, Listing(heap, st, start_cell), start_cell, 1)

\* cells = []; cell_names = []
NoCells == [cells |-> <<>>, cell_names |-> <<>>, raised |-> NoError]

(***************************************************************************)
(* export/dxf_export.py: the cell traversal of write_cell_to_dxf_file.     *)
(***************************************************************************)
RuntimeError(name) == [type |-> "RuntimeError", args |-> <<name>>]

\* cells = []; cell_names = []; layers_and_datatypes = {}
DxfNoCells ==
    [cells |-> <<>>, cell_names |-> <<>>, layers_and_datatypes |-> {}, raised |-> NoError]

\* `c in cells`: c is the dict of the reference and cells holds Cell
\* objects; Cell defines no __eq__, and a dict is equal to no Cell
RefListed(st, ref) == FALSE

\* `for layer in c['cell'].layer_dict.keys()`: the pair of layer and
\* datatype entered is <<layer, layer>>
LayersEntered(heap, st, c) ==
    [st EXCEPT !.layers_and_datatypes =
        @ \cup {<<layer, layer>> : layer \in Range(LayerKeys(heap[c]))}]

RECURSIVE dxf_add_cells_to_unique_list(_, _, _)
RECURSIVE DxfVisitRefs(_, _, _, _)
\* what follows the recursive call in the body of the loop, unless the call
\* raised
DxfVisited(heap, st, c) == IF st.raised # NoError THEN st ELSE LayersEntered(heap, st, c)

\* the body of `for c in start_cell.cells`
DxfVisitRef(heap, st, ref) ==
    IF RefListed(st, ref) THEN st
    ELSE IF NameTaken(heap, st, ref.cell)
    THEN [st EXCEPT !.raised = RuntimeError(heap[ref.cell].name)]
    ELSE DxfVisited(heap, dxf_add_cells_to_unique_list(heap, st, ref.cell), ref.cell)

\* `for c in start_cell.cells`, from the k-th reference on
DxfVisitRefs(heap, st, start_cell, k) ==
    IF st.raised # NoError \/ k > Len(heap[start_cell].cells) THEN st
    ELSE DxfVisitRefs(heap, DxfVisitRef(heap, st, heap[start_cell].cells[k]),
                      start_cell, k + 1)

\* add_cells_to_unique_list of write_cell_to_dxf_file
dxf_add_cells_to_unique_list(heap, st, start_cell) ==
    DxfVisitRefs(heap, Listing(heap, st, start_cell), start_cell, 1)

\* the records write_cell_to_gdsii_file writes before the cells
LibraryName == "gdshelpers_exported_library"

\* grid_step_unit / unit = 1 / grid_steps_per_unit, as the float it is: 0.001
\* is 0x4189374bc6a7f0 * 16^-16
UserUnit(grid_steps_per_unit) ==
    [sign |-> 1, digits |-> <<4, 1, 8, 9, 3, 7, 4, 11, 12, 6, 10, 7, 15, 0>>, p16 |-> -16]

\* grid_step_unit = unit / grid_steps_per_unit, as the float it is: 1e-9 is
\* 0x44b82fa09b5a54 * 16^-21
grid_step_unit(grid_steps_per_unit) ==
    [sign |-> 1, digits |-> <<4, 4, 11, 8, 2, 15, 10, 0, 9, 11, 5, 10, 5, 4>>, p16 |-> -21]

HeaderRecords(grid_steps_per_unit, timestamp) ==
    << <<6, "HEADER", 600>>,
       <<28, "BGNLIB", timestamp \o timestamp>>,
       <<4 + PaddedLen(LibraryName), "LIBNAME", Padded(LibraryName)>>,
       <<20, "UNITS", _real_to_8byte(UserUnit(grid_steps_per_unit))
                      \o _real_to_8byte(grid_step_unit(grid_steps_per_unit))>> >>

(***************************************************************************)
(* The state.                                                              *)
(***************************************************************************)
VARIABLES
    \* one call of fracture or fracture_intelligently:
    call,       \* its arguments: obj and the budgets
    fpc,        \* where the call stands
    f,          \* fracture's locals: out_polygons, done_counter
    h,          \* heal's locals: objs, the enumeration index, segments_joined
    result,     \* what the call returned
    healed,     \* what heal returns when applied to that result once more
    \* the layout graph:
    heap,       \* the Cell objects created so far, by identity
    raised,     \* the exception that ended the program, or NoError
    \* one call of write_cell_to_gdsii_file after another:
    pc,         \* where the export stands
    export,     \* its arguments and locals: cell, parallel, cells, cell_names
    outfile,    \* the records written to the output stream so far
    written,    \* the number of cells whose binary has been written
    results,    \* the binaries the workers of the pool have returned
    finish_order, \* the order in which the workers finished
    saved,      \* the stream of each completed export, by its `parallel`
    warned,     \* the warnings issued, in the process that issued them
    \* the codec's functions applied to one input:
    codec,      \* the function applied, its argument and what it returned
    \* the global configuration object
    configuration,
    \* the last call of get_bounds: cell, layers and the value returned
    last

fracture_vars == <<call, fpc, f, h, result, healed>>

layout_vars == <<heap, raised>>

export_vars == <<pc, export, outfile, written, results, finish_order, saved, warned>>

codec_vars == <<build, codec, configuration>>

vars == <<fracture_vars, layout_vars, export_vars, codec_vars, last>>

(***************************************************************************)
(* The inputs of the fracture engine.                                      *)
(***************************************************************************)
\* The rows a column of an input polygon fills: all three, the rim (bottom
\* and top), the bottom one, the lower two.
ColumnRows(t) ==
    CASE t = "full" -> {0, 1, 2}
      [] t = "rim"  -> {0, 2}
      [] t = "low"  -> {0}
      [] t = "mid"  -> {0, 1}

ColumnTypes == {"full", "rim", "low", "mid"}

ColumnRects(cols) ==
    { << (k - 1) * Scale, row * Scale, k * Scale, (row + 1) * Scale >> :
        <<k, row>> \in {e \in (1..Len(cols)) \X {0, 1, 2} : e[2] \in ColumnRows(cols[e[1]])} }

InputPolygons ==
    { Polygon(ColumnRects(cols)) :
        cols \in {c \in UNION {[1..n -> ColumnTypes] : n \in 1..MaxCols} :
                     IsConnected(ColumnRects(c))} }

InputLines ==
    { LineString([k \in 1..n |-> <<(k - 1) * Scale, 0>>]) : n \in 2..MaxLinePts }

\* the smallest point limit the configuration accepts
MinPoints == 6

\* a rectangle's ring has 5 points: below that budget no polygon is ever done
RectanglePoints == 5

Budgets == MinPoints..MaxPoints

Calls ==
    { [entry |-> "fracture", obj |-> o, max_points |-> mp, max_points_line |-> ml,
       max_interior |-> mi, over_fracture_factor |-> 1] :
        <<o, mp, ml, mi>> \in
            (InputPolygons \X ({0} \cup Budgets) \X {MinPoints} \X {0, 1})
            \cup (InputLines \X {MinPoints} \X ({0} \cup Budgets) \X {0}) }
    \cup
    { [entry |-> "fracture_intelligently", obj |-> o, max_points |-> mp,
       max_points_line |-> ml, max_interior |-> 0, over_fracture_factor |-> off] :
        <<o, mp, ml, off>> \in
            {e \in InputPolygons \X Budgets \X {MinPoints} \X {0, 1, 2} :
                e[4] >= 1 => e[2] >= RectanglePoints * e[4]}
            \cup (InputLines \X {MinPoints} \X Budgets \X {0, 1, 2}) }

\* PolyBudget with the budget halved once more
PolyBudgetHalved == Frac(call.max_points, 2 * Max({call.over_fracture_factor, 1}))

\* the budgets fracture is called with
PolyBudget ==
    IF call.entry = "fracture_intelligently" /\ Heals(call.over_fracture_factor)
    THEN Frac(call.max_points, call.over_fracture_factor)
    ELSE Frac(call.max_points, 1)

LineBudget == Frac(call.max_points_line, 1)

\* no call of get_bounds has returned
NoQuery == [cell |-> 0, layers |-> None, value |-> None]

\* no call of write_cell_to_gdsii_file has been made
NoExport == [cell |-> 0, parallel |-> FALSE, cells |-> <<>>, cell_names |-> <<>>]

\* a program that has built no cell and exported nothing
InitLayout ==
    /\ heap = <<>>
    /\ raised = NoError
    /\ pc = "build"
    /\ export = NoExport
    /\ outfile = <<>>
    /\ written = 0
    /\ results = <<>>
    /\ finish_order = <<>>
    /\ saved = [parallel \in BOOLEAN |-> <<>>]
    /\ warned = <<>>
    /\ last = NoQuery

(***************************************************************************)
(* _global_configuration.py: class _Configuration.  A Python value that    *)
(* may be None is None or Some(v).                                         *)
(***************************************************************************)
\* Enum('DefaultDatatype', 'zero aslayer dose_factor')
DefaultDatatype == {"zero", "aslayer", "dose_factor"}

\* the class attributes _datatype, _dose_factor, _point_limit,
\* _point_limit_line
_Configuration ==
    [_datatype |-> "aslayer", _dose_factor |-> 1, _point_limit |-> Some(4000),
     _point_limit_line |-> Some(4000)]

\* the keys of a profile, in the order of the dict
ProfileKeys == <<"datatype_policy", "dose_factor", "point_limit", "point_limit_line">>

Profile(policy, dose, limit, limit_line) ==
    [datatype_policy |-> policy, dose_factor |-> dose, point_limit |-> limit,
     point_limit_line |-> limit_line]

MACHINE_DEFAULTS ==
    [unlimited |-> Profile("zero", 1, None, None),
     JEOL |-> Profile("aslayer", 1, Some(4000), Some(4000)),
     ELine |-> Profile("dose_factor", 1, Some(4000), Some(4000)),
     conservative |-> Profile("zero", 1, Some(200), Some(200))]

\* the getters of the properties
datatype_policy(self) == self._datatype

dose_factor(self) == self._dose_factor

point_limit(self) == self._point_limit

point_limit_line(self) == self._point_limit

\* `type(max_points) == int and max_points > 5`
LimitAccepted(max_points) == max_points # None /\ max_points[1] > 5

\* a configuration and the exception a call on it raised
Configured(self, error) == [self |-> self, raised |-> error]

\* the setters of the properties
datatype_policy_setter(self, policy) ==
    IF policy \in DefaultDatatype
    THEN Configured([self EXCEPT !._datatype = policy], NoError)
    ELSE Configured(self, AssertionError("policy"))

dose_factor_setter(self, value) ==
    Configured([self EXCEPT !._dose_factor = value], NoError)

point_limit_setter(self, max_points) ==
    IF LimitAccepted(max_points)
    THEN Configured([self EXCEPT !._point_limit = max_points], NoError)
    ELSE Configured(self, AssertionError("max_points"))

point_limit_line_setter(self, max_points_line) ==
    IF LimitAccepted(max_points_line)
    THEN Configured([self EXCEPT !._point_limit_line = max_points_line], NoError)
    ELSE Configured(self, AssertionError("max_points_line"))

\* self.__setattr__(key, value)
SetAttr(self, key, value) ==
    CASE key = "datatype_policy" -> datatype_policy_setter(self, value)
      [] key = "dose_factor" -> dose_factor_setter(self, value)
      [] key = "point_limit" -> point_limit_setter(self, value)
      [] key = "point_limit_line" -> point_limit_line_setter(self, value)

RECURSIVE SetItems(_, _, _)
\* `for key, value in self.MACHINE_DEFAULTS[profile_name].items()`, from the
\* k-th item on; an exception ends the loop
SetItems(st, profile, k) ==
    IF st.raised # NoError \/ k > Len(ProfileKeys) THEN st
    ELSE SetItems(SetAttr(st.self, ProfileKeys[k], profile[ProfileKeys[k]]), profile, k + 1)

\* set_target_profile(profile_name)
set_target_profile(self, profile_name) ==
    IF profile_name \in DOMAIN MACHINE_DEFAULTS
    THEN SetItems(Configured(self, NoError), MACHINE_DEFAULTS[profile_name], 1)
    ELSE Configured(self, AssertionError("Profile name must be one of"))

\* no function of the codec is applied on its own
Idle == [op |-> "idle", arg |-> <<>>, out |-> <<>>]

NoCodec == build = "x86_64" /\ codec = Idle /\ configuration = _Configuration

InitFracture ==
    /\ call \in Calls
    /\ fpc = "fracture"
    /\ f = FractureEnter(call.obj)
    /\ h = HealEnter(<<>>)
    /\ result = <<>>
    /\ healed = <<>>
    /\ InitLayout
    /\ NoCodec

(***************************************************************************)
(* fracture, one turn of its loop at a time.                               *)
(***************************************************************************)
CurrentPolygon == f.out_polygons[f.done_counter + 1]

CurrentBudget == BudgetOf(CurrentPolygon, PolyBudget, LineBudget)

FractureTurn ==
    /\ fpc = "fracture"
    /\ FractureRunning(f)
    /\ CutIsExact(f, PolyBudget, LineBudget, call.max_interior)
    /\ f' = FractureStep(f, PolyBudget, LineBudget, call.max_interior)
    /\ UNCHANGED <<call, fpc, h, result, healed>>
    /\ UNCHANGED <<layout_vars, export_vars, codec_vars, last>>

\* the polygon has too many holes and is cut through the first one
CutAtHole ==
    /\ fpc = "fracture" /\ FractureRunning(f)
    /\ NeedsHoleCut(CurrentPolygon, call.max_interior)
    /\ FractureTurn

\* the shape has too many points and is cut in halves
CutInHalves ==
    /\ fpc = "fracture" /\ FractureRunning(f)
    /\ ~NeedsHoleCut(CurrentPolygon, call.max_interior)
    /\ NeedsPointCut(CurrentPolygon, CurrentBudget)
    /\ FractureTurn

\* the shape is within its budgets and counted as done
CountDone ==
    /\ fpc = "fracture" /\ FractureRunning(f)
    /\ ~NeedsHoleCut(CurrentPolygon, call.max_interior)
    /\ ~NeedsPointCut(CurrentPolygon, CurrentBudget)
    /\ FractureTurn

\* fracture returns: to the caller, or to fracture_intelligently, which heals
FractureReturn ==
    /\ fpc = "fracture"
    /\ ~FractureRunning(f)
    /\ IF call.entry = "fracture_intelligently" /\ Heals(call.over_fracture_factor)
       THEN /\ fpc' = "heal"
            /\ h' = HealEnter(f.out_polygons)
            /\ UNCHANGED result
       ELSE /\ fpc' = "returned"
            /\ result' = f.out_polygons
            /\ UNCHANGED h
    /\ UNCHANGED <<call, f, healed>>
    /\ UNCHANGED <<layout_vars, export_vars, codec_vars, last>>

(***************************************************************************)
(* heal, one turn of its outer loop at a time.                             *)
(***************************************************************************)
HealTurn ==
    /\ fpc \in {"heal", "heal_again"}
    /\ ~h.returned
    /\ h' = HealStep(h, call.max_points, 0)
    /\ UNCHANGED <<call, fpc, f, result, healed>>
    /\ UNCHANGED <<layout_vars, export_vars, codec_vars, last>>

HealReturn ==
    /\ fpc = "heal"
    /\ h.returned
    /\ fpc' = "returned"
    /\ result' = h.objs
    /\ UNCHANGED <<call, f, h, healed>>
    /\ UNCHANGED <<layout_vars, export_vars, codec_vars, last>>

\* heal(result, max_points) once more, on what fracture_intelligently returned
HealAgain ==
    /\ fpc = "returned"
    /\ call.entry = "fracture_intelligently" /\ Heals(call.over_fracture_factor)
    /\ fpc' = "heal_again"
    /\ h' = HealEnter(result)
    /\ UNCHANGED <<call, f, result, healed>>
    /\ UNCHANGED <<layout_vars, export_vars, codec_vars, last>>

HealAgainReturn ==
    /\ fpc = "heal_again"
    /\ h.returned
    /\ fpc' = "healed_again"
    /\ healed' = h.objs
    /\ UNCHANGED <<call, f, h, result>>
    /\ UNCHANGED <<layout_vars, export_vars, codec_vars, last>>

NextFracture ==
    \/ CutAtHole
    \/ CutInHalves
    \/ CountDone
    \/ FractureReturn
    \/ HealTurn
    \/ HealReturn
    \/ HealAgain
    \/ HealAgainReturn

SpecFracture == InitFracture /\ [][NextFracture]_vars

(***************************************************************************)
(* Properties of fracture, heal and fracture_intelligently.                *)
(***************************************************************************)
\* the call has returned to its caller
FractureReturned == fpc = "returned" /\ call.entry = "fracture"

IntelligentlyReturned == fpc = "returned" /\ call.entry = "fracture_intelligently"

\* heal has joined fragments: fracture left more of them than were returned
HasMerged == Len(result) < Len(f.out_polygons)

\* the shape has at most max_points points, and at most max_interior holes
WithinBudgets(shape, max_points_poly, max_points_line, max_interior) ==
    IF IsPolygon(shape)
    THEN /\ ~Exceeds(_number_of_points(shape), max_points_poly)
         /\ Len(shape.interiors) <= max_interior
    ELSE ~Exceeds(_number_of_points(shape), max_points_line)

AllWithinBudgets(shapes, max_points_poly, max_points_line, max_interior) ==
    \A k \in 1..Len(shapes) :
        WithinBudgets(shapes[k], max_points_poly, max_points_line, max_interior)

\* C3 as stated: for every budget, every fragment fracture returns has at
\* most the points of its category's budget (max_points_poly for a polygon,
\* max_points_line for a line) and, if a polygon, at most max_interior holes.
C3_WithinEveryBudget ==
    FractureReturned =>
        AllWithinBudgets(result, Frac(call.max_points, 1), Frac(call.max_points_line, 1),
                         call.max_interior)

\* the budget of the shape's category
CategoryBudget(shape) ==
    IF IsPolygon(shape) THEN call.max_points ELSE call.max_points_line

\* C3, amended: every fragment fracture returns has at most the points of
\* its category's budget if that budget is not 0, and, if a polygon, at most
\* max_interior holes; with a budget of 0 a shape that needs no cut at a hole
\* is returned as it is.
C3_FractureWithinBudgets ==
    FractureReturned =>
        /\ \A k \in 1..Len(result) :
               IF CategoryBudget(result[k]) = 0
               THEN WithinBudgets(result[k], Frac(_number_of_points(result[k]), 1),
                                  Frac(_number_of_points(result[k]), 1), call.max_interior)
               ELSE WithinBudgets(result[k], Frac(call.max_points, 1),
                                  Frac(call.max_points_line, 1), call.max_interior)
        /\ (CategoryBudget(call.obj) = 0 /\ ~NeedsHoleCut(call.obj, call.max_interior))
               => result = << call.obj >>

\* a polygon with more holes than allowed came back in three pieces or more
C3_Witness ==
    /\ FractureReturned
    /\ IsPolygon(call.obj)
    /\ Len(call.obj.interiors) > call.max_interior
    /\ Len(result) >= 3

\* C4: every fragment fracture_intelligently returns, for any
\* over_fracture_factor, has at most one hole and at most the points of its
\* category's budget, and heal never holds a polygon that breaks either.
C4_IntelligentWithinBudgets ==
    /\ IntelligentlyReturned =>
           AllWithinBudgets(result, Frac(call.max_points, 1),
                            Frac(call.max_points_line, 1), 1)
    /\ fpc = "heal" =>
           AllWithinBudgets(h.objs, Frac(call.max_points, 1),
                            Frac(call.max_points_line, 1), 1)

\* heal has merged fragments of an over-fractured polygon, and more than one
\* fragment is left
C4_Witness ==
    /\ IntelligentlyReturned
    /\ call.over_fracture_factor > 1
    /\ HasMerged
    /\ Len(result) >= 2

\* C5: a polygon without holes that has at most max_points points comes back
\* from fracture_intelligently, called with its default over_fracture_factor,
\* as the only fragment.
C5_SmallPolygonUntouched ==
    (/\ IntelligentlyReturned
     /\ call.over_fracture_factor = 1
     /\ IsPolygon(call.obj)
     /\ Len(call.obj.interiors) = 0
     /\ _number_of_points(call.obj) <= call.max_points)
    => result = << call.obj >>

\* a polygon that is no rectangle and has exactly max_points points came back
C5_Witness ==
    /\ IntelligentlyReturned
    /\ call.over_fracture_factor = 1
    /\ IsPolygon(call.obj)
    /\ Len(call.obj.interiors) = 0
    /\ _number_of_points(call.obj) = call.max_points
    /\ call.max_points > RectanglePoints

\* C6: heal applied to what heal(fracture(X), max_points) returned gives the
\* same fragments: it merges nothing.
C6_HealIdempotent == fpc = "healed_again" => healed = result

\* heal was applied again to fragments the first heal had merged some of
C6_Witness ==
    /\ fpc = "healed_again"
    /\ HasMerged
    /\ Len(healed) >= 2

RECURSIVE SumAreas(_)
SumAreas(shapes) ==
    IF shapes = <<>> THEN 0 ELSE Area(Head(shapes).rects) + SumAreas(Tail(shapes))

RectWithin(r, q) == q[1] <= r[1] /\ q[2] <= r[2] /\ r[3] <= q[3] /\ r[4] <= q[4]

\* the fragments are polygons that lie in the polygon, do not overlap each
\* other and have its area: their union is the polygon
PolygonCovered(obj, shapes) ==
    /\ \A k \in 1..Len(shapes) :
           /\ IsPolygon(shapes[k])
           /\ \A r \in shapes[k].rects : \E q \in obj.rects : RectWithin(r, q)
    /\ \A k \in 1..Len(shapes) : \A m \in (k + 1)..Len(shapes) :
           \A r \in shapes[k].rects : \A q \in shapes[m].rects : ~RectsOverlap(r, q)
    /\ SumAreas(shapes) = Area(obj.rects)

RECURSIVE SumLengths(_)
SumLengths(shapes) ==
    IF shapes = <<>> THEN 0
    ELSE (Bounds(Head(shapes))[3] - Bounds(Head(shapes))[1]) + SumLengths(Tail(shapes))

\* the fragments are pieces of the line that share end points at most, hold
\* all its points and have its length: their union is the line
LineCovered(obj, shapes) ==
    /\ \A k \in 1..Len(shapes) :
           /\ ~IsPolygon(shapes[k])
           /\ Range(shapes[k].pts) \subseteq
                  {p \in (Bounds(obj)[1]..Bounds(obj)[3]) \X {Bounds(obj)[2]} : TRUE}
    /\ \A k \in 1..Len(shapes) : \A m \in (k + 1)..Len(shapes) :
           \/ Bounds(shapes[k])[3] <= Bounds(shapes[m])[1]
           \/ Bounds(shapes[m])[3] <= Bounds(shapes[k])[1]
    /\ Range(obj.pts) \subseteq UNION {Range(shapes[k].pts) : k \in 1..Len(shapes)}
    /\ SumLengths(shapes) = Bounds(obj)[3] - Bounds(obj)[1]

\* C7: the union of the fragments fracture_intelligently returns is the
\* shape it was given: no area is lost or gained by the cuts, by dropping the
\* line parts of a cut, or by the merges.
C7_UnionPreserved ==
    IntelligentlyReturned =>
        IF IsPolygon(call.obj) THEN PolygonCovered(call.obj, result)
        ELSE LineCovered(call.obj, result)

\* a polygon with a hole was cut, and heal has merged some of the pieces
C7_Witness ==
    /\ IntelligentlyReturned
    /\ IsPolygon(call.obj)
    /\ Len(call.obj.interiors) >= 1
    /\ call.over_fracture_factor >= 1
    /\ HasMerged

(***************************************************************************)
(* The layout graph: the operations of Cell.                               *)
(***************************************************************************)
\* a program that fractures nothing
NoFracture ==
    /\ call = <<>>
    /\ fpc = "idle"
    /\ f = FractureEnter(EmptyGeometry)
    /\ h = HealEnter(<<>>)
    /\ result = <<>>
    /\ healed = <<>>

\* the program is building its cells: no export has begun, nothing was raised
Building == pc = "build" /\ raised = NoError

\* what add_region_layer does with the value get_bounds returned
RegionAdded(self, region_layer, got) ==
    IF got.value = None
    THEN /\ raised' = TypeError(<<"box", "NoneType">>)
         /\ heap' = got.heap
    ELSE /\ heap' = [got.heap EXCEPT
                        ![self]._bounds = None,
                        ![self].layer_dict = LayerDictAdd(@, region_layer, << box(got.value) >>)]
         /\ UNCHANGED raised

\* add_region_layer with the region around all layers, whatever `layers` is
add_region_layer_all(self, region_layer, layers) ==
    /\ Building
    /\ RegionAdded(self, region_layer, get_bounds(heap, self, None))
    /\ last' = NoQuery
    /\ UNCHANGED <<fracture_vars, export_vars, codec_vars>>

\* self.add_region_layer(region_layer, layers):
\* self.add_to_layer(region_layer, box(*self.get_bounds(layers)))
add_region_layer(self, region_layer, layers) ==
    /\ Building
    /\ RegionAdded(self, region_layer, get_bounds(heap, self, layers))
    /\ last' = NoQuery
    /\ UNCHANGED <<fracture_vars, export_vars, codec_vars>>

\* Cell(name)
NewCell(name) ==
    /\ Building
    /\ Len(heap) < MaxCells
    /\ heap' = Append(heap, Cell(name))
    /\ last' = NoQuery
    /\ UNCHANGED <<raised, fracture_vars, export_vars, codec_vars>>

\* add_to_layer without `self._bounds = None`
add_to_layer_cached(self, layer, geometry) ==
    /\ Building
    /\ heap' = [heap EXCEPT ![self].layer_dict = LayerDictAdd(@, layer, geometry)]
    /\ last' = NoQuery
    /\ UNCHANGED <<raised, fracture_vars, export_vars, codec_vars>>

\* self.add_to_layer(layer, *geometry)
add_to_layer(self, layer, geometry) ==
    /\ Building
    /\ heap' = [heap EXCEPT ![self]._bounds = None,
                            ![self].layer_dict = LayerDictAdd(@, layer, geometry)]
    /\ last' = NoQuery
    /\ UNCHANGED <<raised, fracture_vars, export_vars, codec_vars>>

\* add_dlw_data without the test of the identifier: the entry is replaced
add_dlw_data_overwriting(self, dlw_type, dlw_id, data) ==
    /\ Building
    /\ heap' = [heap EXCEPT ![self].dlw_data =
                   {d \in @ : ~(d[1] = dlw_type /\ d[2] = <<dlw_id>>)}
                   \cup {<<dlw_type, <<dlw_id>>, data>>}]
    /\ UNCHANGED raised
    /\ last' = NoQuery
    /\ UNCHANGED <<fracture_vars, export_vars, codec_vars>>

\* self.add_dlw_data(dlw_type, dlw_id, data)
add_dlw_data(self, dlw_type, dlw_id, data) ==
    /\ Building
    /\ IF \E d \in heap[self].dlw_data : d[1] = dlw_type /\ d[2] = <<dlw_id>>
       THEN /\ raised' = ValueError(<<"ID", dlw_id>>)
            /\ UNCHANGED heap
       ELSE /\ heap' = [heap EXCEPT ![self].dlw_data = @ \cup {<<dlw_type, <<dlw_id>>, data>>}]
            /\ UNCHANGED raised
    /\ last' = NoQuery
    /\ UNCHANGED <<fracture_vars, export_vars, codec_vars>>

\* self.add_cell(cell, origin, angle, columns, rows, spacing)
add_cell(self, cell, origin, angle, columns, rows, spacing) ==
    /\ Building
    /\ IF AddCellRaises(heap, self, cell)
       THEN /\ raised' = ValueError(<<"Cell name", heap[cell].name, heap[self].name>>)
            /\ UNCHANGED heap
       ELSE /\ heap' = [heap EXCEPT ![self].cells =
                           Append(@, Instance(cell, origin, angle, columns, rows, spacing))]
            /\ UNCHANGED raised
    /\ last' = NoQuery
    /\ UNCHANGED <<fracture_vars, export_vars, codec_vars>>

\* what a call of get_bounds leaves behind
Returned(self, layers, got) ==
    /\ heap' = got.heap
    /\ last' = [cell |-> self, layers |-> layers, value |-> got.value]

\* self.get_bounds(layers); self.bounds is self.get_bounds(None)
GetBounds(self, layers) ==
    /\ Building
    /\ Returned(self, layers, get_bounds(heap, self, layers))
    /\ UNCHANGED <<raised, fracture_vars, export_vars, codec_vars>>

\* the number of instances and of geometries of all cells
RECURSIVE SumOver(_, _)
SumOver(k, count) == IF k = 0 THEN 0 ELSE count[k] + SumOver(k - 1, count)

Instances == SumOver(Len(heap), [k \in 1..Len(heap) |-> Len(heap[k].cells)])

Geometries ==
    SumOver(Len(heap),
            [k \in 1..Len(heap) |->
                Len(GeometriesOn(heap[k], LayerKeys(heap[k])))])

DlwEntries == SumOver(Len(heap), [k \in 1..Len(heap) |-> Cardinality(heap[k].dlw_data)])

(***************************************************************************)
(* The export: the cells of a program are built, then saved with           *)
(* parallel=False and with parallel=True.                                  *)
(***************************************************************************)
\* the names the cells are given: one of odd and one of even length
CellNames == {"a", "bb", "ccc"}

\* the parameters of the export
grid_steps_per_unit == 1000

max_points == 4000

max_line_points == 4000

timestamp == <<2020, 1, 2, 3, 4, 5>>

ExportNewCell == \E name \in CellNames : NewCell(name)

\* a box, and a line with a width
ExportGeometries ==
    { box(<<0, 0, 2, 1>>), WithWidth(LineString(<< <<0, 0>>, <<2, 2>> >>), 3) }

ExportAddToLayer ==
    /\ Geometries < MaxShapes
    /\ \E self \in 1..Len(heap) : \E geometry \in ExportGeometries :
           add_to_layer(self, <<1>>, << geometry >>)

ExportAddDlwData ==
    /\ DlwEntries < MaxDlw
    /\ \E self \in 1..Len(heap) : add_dlw_data(self, "taper", "A", 1)

\* a cell is added to a cell created before it
ExportAddCell ==
    /\ Instances < MaxRefs
    /\ \E self \in 1..Len(heap) : \E cell \in (self + 1)..Len(heap) :
           add_cell(self, cell, <<0, 0>>, None, 1, 1, None)

\* write_cell_to_gdsii_file up to `add_cells_to_unique_list(cell)`: st is
\* what the traversal left
Enter(cell, parallel, st) ==
    /\ export' = [cell |-> cell, parallel |-> parallel,
                  cells |-> st.cells, cell_names |-> st.cell_names]
    /\ raised' = st.raised
    /\ pc' = IF st.raised = NoError THEN "header" ELSE "raised"
    /\ outfile' = <<>>
    /\ written' = 0
    /\ results' = <<>>
    /\ finish_order' = <<>>
    /\ warned' = <<>>
    /\ UNCHANGED <<heap, saved, last, fracture_vars, codec_vars>>

\* cell.save(..., parallel=parallel): the first export of the program, or
\* the second one, of the same cell with the other value of parallel
Traverse(cell, parallel) ==
    /\ raised = NoError
    /\ \/ pc = "build"
       \/ pc = "done" /\ cell = export.cell /\ parallel # export.parallel
                      /\ saved[parallel] = <<>>
    /\ Enter(cell, parallel, add_cells_to_unique_list(heap, NoCells, cell))

\* the cell created first is saved: cells are added to cells created before
\* them, so it is the root of the largest tree
Export == heap # <<>> /\ \E parallel \in BOOLEAN : Traverse(1, parallel)

\* HEADER, BGNLIB, LIBNAME and UNITS; with parallel the cells are then
\* handed to the pool
WriteHeader ==
    /\ pc = "header"
    /\ outfile' = outfile \o HeaderRecords(grid_steps_per_unit, timestamp)
    /\ pc' = IF export.parallel THEN "pool" ELSE "serial"
    /\ results' = IF export.parallel THEN [k \in 1..Len(export.cells) |-> None] ELSE results
    /\ UNCHANGED <<heap, raised, export, written, finish_order, saved, warned, last, fracture_vars, codec_vars>>

\* one turn of `for c in cells`
\* outfile.write(binary) of a loop that goes on when a cell has raised
WrittenLenient(binary) ==
    /\ outfile' = outfile \o binary.binary
    /\ written' = written + 1
    /\ UNCHANGED <<raised, pc>>

\* outfile.write(binary), or the exception of the cell propagates
Written(binary) ==
    /\ outfile' = outfile \o binary.binary
    /\ raised' = binary.raised
    /\ pc' = IF binary.raised = NoError THEN pc ELSE "raised"
    /\ written' = IF binary.raised = NoError THEN written + 1 ELSE written

SerialWrite ==
    /\ pc = "serial"
    /\ written < Len(export.cells)
    /\ Written(CellResult(heap, export.cells[written + 1], grid_steps_per_unit,
                          max_points, max_line_points, timestamp))
    /\ warned' = warned \o CellResult(heap, export.cells[written + 1], grid_steps_per_unit,
                                      max_points, max_line_points, timestamp).warnings
    /\ UNCHANGED <<heap, export, results, finish_order, saved, last, fracture_vars, codec_vars>>

\* a worker of the pool returns the binary of the k-th cell, or raises
WorkerFinish(k) ==
    /\ pc = "pool"
    /\ results[k] = None
    /\ results' = [results EXCEPT ![k] =
                      Some(CellResult(Pickled(heap), export.cells[k], grid_steps_per_unit,
                                      max_points, max_line_points, timestamp))]
    /\ warned' = warned \o CellResult(Pickled(heap), export.cells[k], grid_steps_per_unit,
                                      max_points, max_line_points, timestamp).warnings
    /\ finish_order' = Append(finish_order, k)
    /\ UNCHANGED <<heap, raised, pc, export, outfile, written, saved, last, fracture_vars, codec_vars>>

WorkersFinish == \E k \in 1..Len(export.cells) : WorkerFinish(k)

\* the index (counted from 1) of the result pool.map hands out next: results
\* come in the order of the cells, whatever order they were finished in
NextResult(done, count) == count + 1

\* one turn of `for binary in pool.map(...)`
Collect ==
    /\ pc = "pool"
    /\ written < Len(export.cells)
    /\ results[NextResult(finish_order, written)] # None
    /\ Written(results[NextResult(finish_order, written)][1])
    /\ UNCHANGED <<heap, export, results, finish_order, saved, warned, last, fracture_vars, codec_vars>>

\* the stream with ENDLIB at its end
Ended(stream) == Append(stream, <<4, "ENDLIB", <<>> >>)

\* ENDLIB; write_cell_to_gdsii_file returns and save moves the file in place
WriteEndlib ==
    /\ pc \in {"serial", "pool"}
    /\ written = Len(export.cells)
    /\ outfile' = Ended(outfile)
    /\ saved' = [saved EXCEPT ![export.parallel] = Ended(outfile)]
    /\ pc' = "done"
    /\ UNCHANGED <<heap, raised, export, written, results, finish_order, warned, last, fracture_vars, codec_vars>>

InitExport == InitLayout /\ NoFracture /\ NoCodec

NextExport ==
    \/ ExportNewCell
    \/ ExportAddToLayer
    \/ ExportAddDlwData
    \/ ExportAddCell
    \/ Export
    \/ WriteHeader
    \/ SerialWrite
    \/ WorkersFinish
    \/ Collect
    \/ WriteEndlib

SpecExport == InitExport /\ [][NextExport]_vars

(***************************************************************************)
(* Properties of the export.                                               *)
(***************************************************************************)
\* the cells reachable from the root, the root among them
Reachable(root) == {root} \cup Descendants(heap, root)

\* two distinct Cell objects reachable from the root share a name
SharesName(root) ==
    \E c \in Reachable(root) : \E d \in Reachable(root) :
        c # d /\ heap[c].name = heap[d].name

\* nothing has been written, to the stream or to a file
NothingWritten == outfile = <<>> /\ \A parallel \in BOOLEAN : saved[parallel] = <<>>

\* an export of a tree with a shared name has raised the naming-collision
\* error, and nothing was written
CollisionBeforeWrite ==
    (export.cell # 0 /\ SharesName(export.cell))
    => (pc = "raised" /\ raised.type = "AssertionError" /\ NothingWritten)

\* add_cell has raised
AddCellRaised == raised.type = "ValueError" /\ raised.args[1] = "Cell name"

\* the cells that are children of a cell named `name`
ChildrenOfNamed(name) ==
    UNION {Children(heap, self) : self \in {c \in 1..Len(heap) : heap[c].name = name}}

C2_ParallelEqualsSerial ==
    (saved[TRUE] # <<>> /\ saved[FALSE] # <<>>) => saved[TRUE] = saved[FALSE]

RECURSIVE DepthFirst(_, _)
\* The cells in the order a depth-first walk meets them first: `stack` holds
\* the cells still to be looked at, the next one first.
DepthFirst(listed, stack) ==
    IF stack = <<>> THEN listed
    ELSE IF Head(stack) \in Range(listed) THEN DepthFirst(listed, Tail(stack))
    ELSE DepthFirst(Append(listed, Head(stack)),
                    [k \in 1..Len(heap[Head(stack)].cells) |-> heap[Head(stack)].cells[k].cell]
                    \o Tail(stack))

\* the names of the structure blocks of a stream, in order
StructureNames(stream) ==
    [k \in 1..Len(SelectSeq(stream, LAMBDA record : record[2] = "STRNAME")) |->
        SelectSeq(stream, LAMBDA record : record[2] = "STRNAME")[k][3]]

\* the traversal of the export has returned
Traversed == pc \in {"header", "serial", "pool", "done"}

BoundsGeometries == {box(<<10, 10, 30, 20>>), box(<<-4, 0, 4, 40>>), EmptyGeometry}

BoundsLayers == {<<1>>, <<2>>}

\* the placements of a child: <<origin, angle>>, the angle in quarter turns
Placements == {<< <<0, 0>>, None >>, << <<0, 0>>, Some(1) >>, << <<100, 0>>, Some(1) >>}

\* the layers asked for: all (None), or layer 1
QueryLayers == {None, Some(<< <<1>> >>)}

BoundsNewCell == NewCell("a")

BoundsAddToLayer ==
    /\ Geometries < MaxGeometries
    /\ \E self \in 1..Len(heap) : \E layer \in BoundsLayers :
           \E geometry \in BoundsGeometries : add_to_layer(self, layer, << geometry >>)

\* a cell is added to a cell created before it
BoundsAddCell ==
    /\ Instances < MaxPlaced
    /\ \E self \in 1..Len(heap) : \E cell \in (self + 1)..Len(heap) :
           \E placement \in Placements :
               add_cell(self, cell, placement[1], placement[2], 1, 1, None)

BoundsQuery ==
    \E self \in 1..Len(heap) : \E layers \in QueryLayers : GetBounds(self, layers)

InitBounds == InitLayout /\ NoFracture /\ NoCodec

NextBounds ==
    \/ BoundsNewCell
    \/ BoundsAddToLayer
    \/ BoundsAddCell
    \/ BoundsQuery

SpecBounds == InitBounds /\ [][NextBounds]_vars

(***************************************************************************)
(* Properties of the bounds.                                               *)
(***************************************************************************)
\* the boxes of the non-empty geometries of a cell, on all its layers
Boxes(self) ==
    {Bounds(geo) : geo \in Range(GeometriesOn(self, LayerKeys(self)))} \ {<<>>}

\* the envelope of a set of boxes; None for no box
EnvelopeOf(boxes) ==
    IF boxes = {} THEN None
    ELSE << Min({b[1] : b \in boxes}), Min({b[2] : b \in boxes}),
            Max({b[3] : b \in boxes}), Max({b[4] : b \in boxes}) >>

RECURSIVE Envelope(_)
\* the envelope of the geometry of a cell and of its children as get_bounds
\* places them
Envelope(self) ==
    EnvelopeOf(Boxes(heap[self])
               \cup {transform_bounds(Envelope(ref.cell), ref.origin, AngleOrZero(ref.angle)) :
                       ref \in {r \in Range(heap[self].cells) : Envelope(r.cell) # None}})

\* the last call asked for the bounds on all layers
FullQuery(query) == query.cell # 0 /\ query.layers = None

\* the bounds returned are the envelope, and a cache is None or the envelope
\* of the cell's own geometry
BoundsAreEnvelope ==
    /\ FullQuery(last) => last.value = Envelope(last.cell)
    /\ \A self \in 1..Len(heap) :
           heap[self]._bounds \in {None, EnvelopeOf(Boxes(heap[self]))}

\* a cache is None for a new cell and after add_to_layer, and is set by a
\* query on all layers only
CacheSteps ==
    /\ Len(heap') > Len(heap) => heap'[Len(heap')]._bounds = None
    /\ \A self \in 1..Len(heap) :
           /\ heap'[self].layer_dict # heap[self].layer_dict => heap'[self]._bounds = None
           /\ (heap[self]._bounds = None /\ heap'[self]._bounds # None) => FullQuery(last')

\* C9: after any add_to_layer, add_cell and get_bounds calls, the bounds of a
\* cell are the envelope of its geometry and of its children's placed bounds,
\* None if there is none; the cache is None until a query on all layers, is
\* reset by add_to_layer and holds the cell's own geometry only.
C9_BoundsFollowGeometry == [](BoundsAreEnvelope) /\ [][CacheSteps]_vars

\* the bounds of a cell with geometry of its own and a child with geometry
\* were asked for, and the child adds to them
C9_Witness ==
    /\ FullQuery(last)
    /\ heap[last.cell]._bounds # None
    /\ heap[last.cell].cells # <<>>
    /\ last.value # heap[last.cell]._bounds
    /\ \E k \in 1..Len(heap[last.cell].cells) :
           heap[heap[last.cell].cells[k].cell]._bounds # None

\* the point p turned about (0, 0) and then moved by origin
PlacedPoint(p, origin, rotation) ==
    << Cos(rotation) * p[1] - Sin(rotation) * p[2] + origin[1],
       Sin(rotation) * p[1] + Cos(rotation) * p[2] + origin[2] >>

\* the box of the corners of a box, each turned and then moved: the box of
\* translate(rotate(geometry, angle, origin=(0, 0)), *offset)
PlacedBox(b, origin, rotation) ==
    << Min({PlacedPoint(p, origin, rotation)[1] : p \in {b[1], b[3]} \X {b[2], b[4]}}),
       Min({PlacedPoint(p, origin, rotation)[2] : p \in {b[1], b[3]} \X {b[2], b[4]}}),
       Max({PlacedPoint(p, origin, rotation)[1] : p \in {b[1], b[3]} \X {b[2], b[4]}}),
       Max({PlacedPoint(p, origin, rotation)[2] : p \in {b[1], b[3]} \X {b[2], b[4]}}) >>

RECURSIVE PlacedEnvelope(_)
\* the envelope of the geometry of a cell and of its children, each child
\* turned about its own origin and then moved to the instance's origin
PlacedEnvelope(self) ==
    EnvelopeOf(Boxes(heap[self])
               \cup {PlacedBox(PlacedEnvelope(ref.cell), ref.origin, AngleOrZero(ref.angle)) :
                       ref \in {r \in Range(heap[self].cells) : PlacedEnvelope(r.cell) # None}})

\* C10: a child instance with origin o and angle a adds to the bounds of its
\* parent the box of the child's box turned by a about (0, 0) and then moved
\* by o, for every origin and every angle.
C10_ChildPlacedLikeReference ==
    FullQuery(last) => last.value = PlacedEnvelope(last.cell)


(***************************************************************************)
(* The stream: libraries of up to three cells, with references of every    *)
(* kind, are exported with parallel=False and with parallel=True.          *)
(***************************************************************************)
\* the transformations of a reference: angle in quarter turns,
\* magnification, x_reflection
Transforms ==
    { <<None, None, FALSE>>, <<Some(1), None, FALSE>>, <<Some(0), None, FALSE>>,
      <<Some(-1), Some(Real(1, 2, 0)), FALSE>>, <<None, Some(Real(1, 8, -1)), TRUE>>,
      <<None, None, TRUE>> }

\* columns, rows and spacing of a reference; the third kind has columns but
\* no spacing
Arrays ==
    { <<1, 1, None>>, <<2, 3, Some(<<5, 7>>)>>, <<2, 1, None>>, <<1, 1, Some(<<5, 7>>)>> }

Origins == { <<10, 10>>, <<-3, 7>> }

\* the dict of a reference
Ref(cell, origin, transform, array) ==
    [cell |-> cell, origin |-> origin, angle |-> transform[1],
     magnification |-> transform[2], x_reflection |-> transform[3],
     columns |-> array[1], rows |-> array[2], spacing |-> array[3]]

\* a reference to the third cell, as add_cell(cell, rows=rows) makes it
Plain(rows) == Ref(3, <<0, 0>>, <<None, None, FALSE>>, <<1, rows, None>>)

\* the references of the first cell: one to the second cell, and none or
\* one to the third
RootRefs ==
    { << Ref(2, origin, transform, array) >> :
          origin \in Origins, transform \in Transforms, array \in Arrays }
    \cup { << Ref(2, origin, transform, array), Plain(1) >> :
              origin \in Origins, transform \in Transforms, array \in Arrays }

\* the geometries of a cell, all on layer 1: a Point is of a type the
\* format has no element for
StreamGeometries ==
    { <<>>,
      << Point(<<1, 1>>) >>,
      << box(<<0, 0, 2, 1>>), Point(<<1, 1>>), WithWidth(LineString(<< <<0, 0>>, <<2, 2>> >>), 3) >> }

\* Cell(name) with its geometries and its references added
Built(name, geometry, refs) ==
    [Cell(name) EXCEPT !.layer_dict = IF geometry = <<>> THEN <<>>
                                      ELSE LayerDictAdd(<<>>, <<1>>, geometry),
                       !.cells = refs]

\* the libraries: the third cell may have the name of the second
StreamHeaps ==
    { << Built("a", geometry, refs),
         Built("bb", inner, nested),
         Built(third, <<>>, <<>>) >> :
          geometry \in StreamGeometries, refs \in RootRefs,
          inner \in {<< box(<<0, 0, 2, 1>>) >>},
          nested \in {<<>>, << Plain(1) >>, << Plain(2) >>},
          third \in {"ccc", "bb"} }

\* what the file at the destination holds before the export, if there is one
OldFile == << <<6, "HEADER", 3>>, <<4, "ENDLIB", <<>> >> >>

InitStream ==
    /\ heap \in StreamHeaps
    /\ raised = NoError
    /\ pc = "build"
    /\ export = NoExport
    /\ outfile = <<>>
    /\ written = 0
    /\ results = <<>>
    /\ finish_order = <<>>
    /\ \E old \in {<<>>, OldFile} : saved = [parallel \in BOOLEAN |-> old]
    /\ warned = <<>>
    /\ last = NoQuery
    /\ NoFracture
    /\ NoCodec

\* cell.save(name, parallel=parallel) of the first cell
StreamExport ==
    /\ pc = "build"
    /\ raised = NoError
    /\ \E parallel \in BOOLEAN :
           Enter(1, parallel, add_cells_to_unique_list(heap, NoCells, 1))

NextStream ==
    \/ StreamExport
    \/ WriteHeader
    \/ SerialWrite
    \/ WorkersFinish
    \/ Collect
    \/ WriteEndlib

SpecStream == InitStream /\ [][NextStream]_vars

(***************************************************************************)
(* Properties of the stream.                                               *)
(***************************************************************************)
\* The records a stream may continue with: <<where, tag, where then>>.
\* "lib" is between the structures, "str" in a structure that has no
\* reference yet, "refs" in one that has.
Grammar ==
    { <<"start", "HEADER", "header">>, <<"header", "BGNLIB", "bgnlib">>,
      <<"bgnlib", "LIBNAME", "libname">>, <<"libname", "UNITS", "lib">>,
      <<"lib", "BGNSTR", "bgnstr">>, <<"bgnstr", "STRNAME", "str">>,
      <<"lib", "ENDLIB", "end">>,
      <<"str", "BOUNDARY", "boundary">>, <<"boundary", "LAYER", "blayer">>,
      <<"blayer", "DATATYPE", "datatype">>,
      <<"str", "PATH", "path">>, <<"path", "LAYER", "player">>,
      <<"player", "DATATYPE", "pdatatype">>, <<"pdatatype", "WIDTH", "datatype">>,
      <<"pdatatype", "XY", "xy">>,
      <<"datatype", "XY", "xy">>, <<"xy", "XY", "xy">>, <<"xy", "ENDEL", "str">>,
      <<"str", "SREF", "sref">>, <<"refs", "SREF", "sref">>,
      <<"str", "AREF", "aref">>, <<"refs", "AREF", "aref">>,
      <<"sref", "SNAME", "sname">>, <<"aref", "SNAME", "aname">>,
      <<"sname", "STRANS", "sstrans">>, <<"sstrans", "MAG", "smag">>,
      <<"sstrans", "ANGLE", "sangle">>, <<"smag", "ANGLE", "sangle">>,
      <<"sname", "XY", "refxy">>, <<"sstrans", "XY", "refxy">>,
      <<"smag", "XY", "refxy">>, <<"sangle", "XY", "refxy">>,
      <<"aname", "STRANS", "astrans">>, <<"astrans", "MAG", "amag">>,
      <<"astrans", "ANGLE", "aangle">>, <<"amag", "ANGLE", "aangle">>,
      <<"aname", "COLROW", "colrow">>, <<"astrans", "COLROW", "colrow">>,
      <<"amag", "COLROW", "colrow">>, <<"aangle", "COLROW", "colrow">>,
      <<"colrow", "XY", "refxy">>, <<"refxy", "ENDEL", "refs">>,
      <<"str", "ENDSTR", "lib">>, <<"refs", "ENDSTR", "lib">> }

\* where a stream is after one more record; "bad" if the record may not follow
After(where, tag) ==
    IF \E rule \in Grammar : rule[1] = where /\ rule[2] = tag
    THEN (CHOOSE rule \in Grammar : rule[1] = where /\ rule[2] = tag)[3]
    ELSE "bad"

\* where a stream is after its k-th record and the ones that follow it
RECURSIVE Parsed(_, _, _)
Parsed(stream, k, where) ==
    IF k > Len(stream) THEN where
    ELSE Parsed(stream, k + 1, After(where, stream[k][2]))

\* the records of the stream with one of the tags
Records(stream, tags) == SelectSeq(stream, LAMBDA record : record[2] \in tags)

\* the stream is a library with one structure for every cell reachable from
\* the exported one
CompleteLibrary(stream) ==
    /\ Parsed(stream, 1, "start") = "end"
    /\ Records(stream, {"LIBNAME"})[1][3] = Padded(LibraryName)
    /\ Len(Records(stream, {"BGNSTR"})) = Cardinality(Reachable(export.cell))
    /\ Len(Records(stream, {"ENDSTR"})) = Cardinality(Reachable(export.cell))
    /\ Range(StructureNames(stream)) = {Padded(heap[c].name) : c \in Reachable(export.cell)}

\* s is the beginning of t
IsPrefix(s, t) == Len(s) <= Len(t) /\ SubSeq(t, 1, Len(s)) = s

\* the stream is only added to; each export begins a new one
AppendOnly == IsPrefix(outfile, outfile') \/ (pc' \in {"header", "raised"} /\ outfile' = <<>>)

\* what has been written is the beginning of a library, at a place between
\* two structures; it ends with ENDLIB when, and only when, the export is done
WellFormed ==
    /\ Parsed(outfile, 1, "start") \in {"start", "lib", "end"}
    /\ pc = "done" => CompleteLibrary(outfile)
    /\ Parsed(outfile, 1, "start") = "end" => pc = "done"

\* C11: the stream is, in this order, the header, the library name, the
\* units, one complete block for every cell of the library, and the
\* end-of-library record last; a block is begin-structure with the name, the
\* shapes, the references, end-structure; every element is closed by ENDEL
\* before the next one begins; records are only ever appended.
C11_StreamOrder == [](WellFormed) /\ [][AppendOnly]_vars

\* a library of three structures was written; it has a boundary, a path with
\* a width, and an array reference with a magnification and an angle
C11_Witness ==
    /\ pc = "done"
    /\ Len(Records(outfile, {"BGNSTR"})) = 3
    /\ Len(Records(outfile, {"BOUNDARY"})) >= 2
    /\ Len(Records(outfile, {"WIDTH"})) = 1
    /\ Len(Records(outfile, {"AREF"})) = 1
    /\ Len(Records(outfile, {"MAG"})) = 1
    /\ Len(Records(outfile, {"ANGLE"})) = 1
    /\ Len(Records(outfile, {"SREF"})) = 2

\* the exception was raised by _cell_to_gdsii_binary
SerializationError(error) == error.type = "TypeError" \/ error = HoleError

\* a cell of the export cannot be serialized
SomeCellFails ==
    \E k \in 1..Len(export.cells) :
        CellError(heap, export.cells[k], max_points, max_line_points) # NoError

\* the file at the destination is as it was before the export
DestinationUntouched == \A parallel \in BOOLEAN : saved[parallel] \in {<<>>, OldFile}

\* an export of a library with a cell that fails does not complete and writes
\* no ENDLIB, the destination stays as it was, and what is raised is the
\* exception of the first failing cell
FailurePropagates ==
    /\ (Traversed /\ SomeCellFails) =>
           /\ pc # "done"
           /\ Records(outfile, {"ENDLIB"}) = <<>>
           /\ DestinationUntouched
    /\ (pc = "raised" /\ SerializationError(raised)) =>
           /\ raised = CellError(heap, export.cells[written + 1], max_points, max_line_points)
           /\ \A k \in 1..written :
                  CellError(heap, export.cells[k], max_points, max_line_points) = NoError
           /\ Records(outfile, {"ENDLIB"}) = <<>>
           /\ DestinationUntouched

\* a step that raises leaves the destination alone, and nothing follows it
RaiseAborts == (raised' # NoError \/ raised # NoError) => saved' = saved /\ outfile' = outfile

\* C12: if serializing any cell fails, in a worker or in the serial loop,
\* the exception propagates to the caller and the export is aborted: no ENDLIB
\* is written, and Cell.save neither creates nor replaces the destination.
C12_FailedExportAborts == [](FailurePropagates) /\ [][RaiseAborts]_vars

\* a worker has raised for the second cell after the block of the first was
\* written, and the destination still holds the old file
C12_Witness ==
    /\ pc = "raised"
    /\ raised.type = "TypeError"
    /\ export.parallel
    /\ written = 1
    /\ Records(outfile, {"ENDSTR"}) # <<>>
    /\ saved[TRUE] = OldFile

\* C13: every validation error (a duplicate name, a polygon with a hole at
\* the codec, inconsistent array parameters such as columns > 1 without a
\* spacing) is raised with nothing written to the output stream.
C13_ErrorsBeforeOutput == (pc = "raised" /\ raised # NoError) => outfile = <<>>

\* the places of the records with one of the tags, in their order
Positions(stream, tags) == SortInts({k \in 1..Len(stream) : stream[k][2] \in tags})

\* the n-th structure of a stream, from BGNSTR to ENDSTR
Structure(stream, n) ==
    SubSeq(stream, Positions(stream, {"BGNSTR"})[n], Positions(stream, {"ENDSTR"})[n])

\* the records from the k-th on up to the first ENDEL
ElementAt(stream, k) ==
    SubSeq(stream, k, Min({e \in k..Len(stream) : stream[e][2] = "ENDEL"}))

\* the n-th reference of a structure, from SREF or AREF to ENDEL
RefElement(block, n) == ElementAt(block, Positions(block, {"SREF", "AREF"})[n])

\* the n-th shape of a structure, from BOUNDARY or PATH to ENDEL
ShapeElement(block, n) == ElementAt(block, Positions(block, {"BOUNDARY", "PATH"})[n])

\* the tags of the records
Tags(stream) == [k \in 1..Len(stream) |-> stream[k][2]]

\* a point in grid steps
Scaled(x, y) == << x * grid_steps_per_unit, y * grid_steps_per_unit >>

\* the reference is the single reference at its origin, or the array
\* reference with its columns and rows and the three points
WrittenAsReference(element, ref) ==
    /\ Len(Records(element, {"XY"})) = 1
    /\ IF ref.columns = 1 /\ ref.rows = 1 /\ ref.spacing = None
       THEN /\ element[1][2] = "SREF"
            /\ Records(element, {"COLROW"}) = <<>>
            /\ Records(element, {"XY"})[1][3] = << Scaled(ref.origin[1], ref.origin[2]) >>
       ELSE /\ element[1][2] = "AREF"
            /\ Len(Records(element, {"COLROW"})) = 1
            /\ Records(element, {"COLROW"})[1][3] = << ref.columns, ref.rows >>
            /\ Records(element, {"XY"})[1][3] =
                   << Scaled(ref.origin[1], ref.origin[2]),
                      Scaled(ref.origin[1] + ref.spacing[1][1] * ref.columns, ref.origin[2]),
                      Scaled(ref.origin[1], ref.origin[2] + ref.spacing[1][2] * ref.rows) >>

\* every reference of every cell of the finished stream satisfies P
AllReferences(P(_, _)) ==
    \A n \in 1..Len(export.cells) :
        /\ Len(Positions(Structure(outfile, n), {"SREF", "AREF"})) = Len(heap[export.cells[n]].cells)
        /\ \A k \in 1..Len(heap[export.cells[n]].cells) :
               P(RefElement(Structure(outfile, n), k), heap[export.cells[n]].cells[k])

\* C14: an instance with columns = rows = 1 and no spacing is written as a
\* single reference whose XY record has exactly 1 point, the quantized
\* origin; every other instance is written as an array reference with the
\* (columns, rows) record and an XY record of exactly 3 points: the origin,
\* origin + (spacing_x * columns, 0), origin + (0, spacing_y * rows).
C14_SingleOrArrayReference == pc = "done" => AllReferences(WrittenAsReference)

\* a single reference and an array of 2 columns and 3 rows at (-3, 7) were
\* written
C14_Witness ==
    /\ pc = "done"
    /\ Len(Records(outfile, {"SREF"})) >= 1
    /\ \E k \in 1..Len(outfile) :
           /\ outfile[k] = <<8, "COLROW", <<2, 3>> >>
           /\ outfile[k + 1][3] = << <<-3000, 7000>>, <<7000, 7000>>, <<-3000, 28000>> >>

\* the digits without the zeros at their end
RECURSIVE StripTrailing(_)
StripTrailing(digits) ==
    IF digits # <<>> /\ digits[Len(digits)] = 0
    THEN StripTrailing(SubSeq(digits, 1, Len(digits) - 1)) ELSE digits

\* the digits without the zeros at their beginning
RECURSIVE StripLeading(_)
StripLeading(digits) ==
    IF digits # <<>> /\ digits[1] = 0 THEN StripLeading(Tail(digits)) ELSE digits

\* the real number in the one form that has no zero at either end of its
\* digits
Normal(value) ==
    IF StripTrailing(value.digits) = <<>> THEN [sign |-> 0, digits |-> <<>>, p16 |-> 0]
    ELSE [sign |-> value.sign,
          digits |-> StripLeading(StripTrailing(value.digits)),
          p16 |-> value.p16 + Len(value.digits) - Len(StripTrailing(value.digits))]

\* the 14 hexadecimal digits of bits 55-0
MantissaOf(bytes) ==
    [k \in 1..MantissaDigits |->
        IF k % 2 = 1 THEN bytes[(k + 1) \div 2 + 1] \div HexDigit
        ELSE bytes[k \div 2 + 1] % HexDigit]

\* the number 8 bytes stand for as a REAL_8: bit 63 the sign, bits 62-56 the
\* exponent of 16 in excess 64, bits 55-0 the mantissa, a fraction
Decoded(bytes) ==
    Normal([sign |-> IF bytes[1] >= 128 THEN -1 ELSE 1,
            digits |-> MantissaOf(bytes),
            p16 |-> (bytes[1] % 128) - 64 - MantissaDigits])

\* the tags of the transformation of a reference
TransformTags(ref) ==
    IF ref.angle = None /\ ref.magnification = None /\ ~ref.x_reflection THEN <<>>
    ELSE <<"STRANS">> \o (IF ref.magnification # None THEN <<"MAG">> ELSE <<>>)
                     \o (IF ref.angle # None THEN <<"ANGLE">> ELSE <<>>)

\* the angle is the number of degrees in 0..359 that q quarter turns are
IsDegreesOf(bytes, q) ==
    \E d \in 0..359 : (d - 90 * q) % 360 = 0 /\ Decoded(bytes) = Normal(Real(1, d, 0))

\* the transformation records of the reference are there exactly when the
\* transformation is not the default one, in the order STRANS, MAG, ANGLE,
\* after the name and before COLROW and XY, and hold its values
WrittenTransformed(element, ref) ==
    /\ SubSeq(Tags(element), 1, Positions(element, {"COLROW", "XY"})[1] - 1)
           = << element[1][2], "SNAME" >> \o TransformTags(ref)
    /\ \A k \in 1..Len(element) :
           /\ element[k][2] = "STRANS" => element[k][3] = IF ref.x_reflection THEN 32768 ELSE 0
           /\ element[k][2] = "MAG" => Decoded(element[k][3]) = Normal(ref.magnification[1])
           /\ element[k][2] = "ANGLE" => IsDegreesOf(element[k][3], ref.angle[1])

\* C15: the transformation records are written only if the transformation
\* of the instance is not the default one, in the order STRANS, MAG, ANGLE,
\* after the name and before COLROW and XY; the rotation is in degrees modulo
\* 360: an instance at (10, 10) turned by 90 degrees has the XY point
\* (10 * grid, 10 * grid) and the rotation 90.0.
C15_TransformRecords == pc = "done" => AllReferences(WrittenTransformed)

\* the reference at (10, 10) turned by a quarter was written with ANGLE
\* 0x425A000000000000, which is 90.0, and the point (10000, 10000)
C15_Witness ==
    /\ pc = "done"
    /\ heap[1].cells[1].origin = <<10, 10>>
    /\ heap[1].cells[1].angle = Some(1)
    /\ Tags(RefElement(Structure(outfile, 1), 1)) = <<"SREF", "SNAME", "STRANS", "ANGLE", "XY", "ENDEL">>
    /\ RefElement(Structure(outfile, 1), 1)[4][3] = <<66, 90, 0, 0, 0, 0, 0, 0>>
    /\ RefElement(Structure(outfile, 1), 1)[5][3] = << <<10000, 10000>> >>

\* the number of bytes that follow the 4 bytes of length and tag
PayloadBytes(record) ==
    CASE record[2] = "HEADER" -> 2
      [] record[2] \in {"BGNLIB", "BGNSTR", "COLROW"} -> 2 * Len(record[3])
      [] record[2] \in {"LIBNAME", "STRNAME", "SNAME"} -> Len(record[3][1]) + record[3][2]
      [] record[2] \in {"UNITS", "MAG", "ANGLE"} -> Len(record[3])
      [] record[2] \in {"LAYER", "DATATYPE", "STRANS"} -> 2
      [] record[2] = "WIDTH" -> 4
      [] record[2] = "XY" -> 8 * Len(record[3])
      [] OTHER -> 0

\* the length field is the length, an even number of 16 bits, and a name is
\* padded with NULs to an even length
RecordFramed(record) ==
    /\ record[1] = 4 + PayloadBytes(record)
    /\ record[1] < 65536
    /\ record[1] % 2 = 0
    /\ record[2] \in {"LIBNAME", "STRNAME", "SNAME"} =>
           /\ (Len(record[3][1]) + record[3][2]) % 2 = 0
           /\ record[3][2] = Len(record[3][1]) % 2

\* the place of a cell in the list of the export
RECURSIVE IndexOf(_, _, _)
IndexOf(cells, c, k) == IF cells[k] = c THEN k ELSE IndexOf(cells, c, k + 1)

\* the name of the reference is the name of the structure of the cell
NamedAsStructure(element, ref) ==
    /\ element[2][2] = "SNAME"
    /\ element[2][3] = StructureNames(outfile)[IndexOf(export.cells, ref.cell, 1)]

\* C17: the length field of every record is the number of bytes written
\* for it, its header included, fits in 16 bits and is even; the names of
\* cells, library and references are padded with NULs to an even length; the
\* name bytes of a reference are the name bytes of the STRNAME of the cell it
\* refers to.
C17_RecordFraming ==
    /\ \A k \in 1..Len(outfile) : RecordFramed(outfile[k])
    /\ pc = "done" => AllReferences(NamedAsStructure)

\* a library with an array reference and two references to the cell "ccc",
\* whose name gets a NUL, was written
C17_Witness ==
    /\ pc = "done"
    /\ \E k \in 1..Len(outfile) : outfile[k][1] = 28 /\ outfile[k][2] = "XY"
    /\ Len(SelectSeq(outfile, LAMBDA record : record[2] = "SNAME" /\ record[3] = <<"ccc", 1>>)) = 2
    /\ Len(SelectSeq(outfile, LAMBDA record : record[2] = "STRNAME" /\ record[3] = <<"ccc", 1>>)) = 1

\* the cells without the shapes the format has no element for
Supported(cells) ==
    [c \in 1..Len(cells) |->
        [cells[c] EXCEPT !.layer_dict =
            [l \in 1..Len(@) |->
                [layer |-> @[l].layer,
                 geometries |-> SelectSeq(@[l].geometries, LAMBDA geo : ~Unsupported(geo))]]]]

\* the library of the listed cells as a stream
Library(cells) ==
    Ended(HeaderRecords(grid_steps_per_unit, timestamp)
          \o Concat([k \in 1..Len(export.cells) |->
                        _cell_to_gdsii_binary(cells, export.cells[k], grid_steps_per_unit,
                                              max_points, max_line_points, timestamp)]))

\* the cells as the export sees them: the workers see copies
Seen == IF export.parallel THEN Pickled(heap) ELSE heap

\* the unsupported shapes of the cells written so far, by the serial loop or
\* by the workers
SkippedSoFar ==
    IF export.parallel
    THEN [k \in 1..Len(finish_order) |->
             Len(SelectSeq(GeometriesOn(heap[export.cells[finish_order[k]]],
                                        LayerKeys(heap[export.cells[finish_order[k]]])),
                           Unsupported))]
    ELSE [k \in 1..Len(export.cells) |->
             IF k <= written + (IF pc = "raised" THEN 1 ELSE 0)
             THEN Len(SelectSeq(GeometriesOn(heap[export.cells[k]], LayerKeys(heap[export.cells[k]])),
                                Unsupported))
             ELSE 0]

\* C20: a shape of a type that cannot be converted (a point) gets a warning
\* and contributes no bytes; every other shape and the rest of the library
\* are written and the export completes.
C20_UnsupportedSkipped ==
    /\ Traversed => Len(warned) = SumOver(Len(SkippedSoFar), SkippedSoFar)
    /\ pc = "done" => outfile = Library(Supported(Seen))
    /\ pc = "raised" => (SomeCellFails \/ SharesName(export.cell))

\* the workers have written a cell that holds a point between a box and a
\* line: one warning, and the elements of the box and the line
C20_Witness ==
    /\ pc = "done"
    /\ export.parallel
    /\ Len(warned) = 1
    /\ Len(heap[1].layer_dict[1].geometries) = 3
    /\ Tags(Structure(outfile, 1))[3] = "BOUNDARY"
    /\ Len(Records(Structure(outfile, 1), {"PATH"})) = 1

(***************************************************************************)
(* The codec: its functions applied to one input each, on either platform. *)
(***************************************************************************)
\* the values given to _real_to_8byte: sign * n * 16^p16, and 0
RealInputs ==
    { Real(sign, n, p16) : sign \in {1, -1}, n \in {0, 1, 2, 15, 16, 90, 255, 270, 4095},
                           p16 \in -2..2 }

\* the coordinates n / d, halves and quarters among them, small and large
Coordinates ==
    { <<0, 1>>, <<1, 2>>, <<3, 2>>, <<5, 2>>, <<-1, 2>>, <<-3, 2>>, <<-5, 2>>, <<1, 4>>,
      <<3, 4>>, <<-3, 4>>, <<7, 1>>, <<-7, 1>>, <<2147, 1>>, <<3000, 1>>, <<-3000, 1>>,
      <<2147483, 1>>, <<2147484, 1>>, <<-2147484, 1>>, <<4294967, 2>>, <<3000000, 1>> }

\* grid_steps_per_unit: 1000 is the default
Grids == {1, 3, 1000, 1000000}

\* the numbers of points of a line: around one block and two blocks
LineLengths == {2, 3, XYBlock - 1, XYBlock, XYBlock + 1, 2 * XYBlock, 2 * XYBlock + 1}

\* a line of n points
LongLine(n) == LineString([k \in 1..n |-> <<k, -k>>])

InitCodec ==
    /\ build \in Builds
    /\ codec = Idle
    /\ configuration = _Configuration
    /\ InitLayout
    /\ NoFracture

\* what a call leaves: the function, its argument and what it returned
Applied(op, arg, out) ==
    /\ codec = Idle
    /\ codec' = [op |-> op, arg |-> arg, out |-> out]
    /\ UNCHANGED <<build, configuration, fracture_vars, layout_vars, export_vars, last>>

\* _real_to_8byte(value)
Encode == \E value \in RealInputs : Applied("_real_to_8byte", value, _real_to_8byte(value))

\* np.round(np.array(c) * grid_steps_per_unit).astype('>i4') for one coordinate
Quantize ==
    \E c \in Coordinates : \E grid \in Grids :
        Applied("quantize", <<c[1], c[2], grid>>, QuantizedCoordinate(c[1], c[2], grid, build))

\* the element of a line of many points, as an export with max_line_points
\* above the number of its points writes it
WriteLine ==
    \E n \in LineLengths :
        Applied("shape", LongLine(n), ShapeRecords(<<1>>, LongLine(n), grid_steps_per_unit))

\* the next call
Return ==
    /\ codec # Idle
    /\ codec' = Idle
    /\ UNCHANGED <<build, configuration, fracture_vars, layout_vars, export_vars, last>>

NextCodec == Encode \/ Quantize \/ WriteLine \/ Return

SpecCodec == InitCodec /\ [][NextCodec]_vars

(***************************************************************************)
(* Properties of the codec.                                                *)
(***************************************************************************)
\* the points of the records, one after the other
PointsOf(records) == Concat([k \in 1..Len(records) |-> records[k][3]])

\* the XY records of an element follow each other without a gap
Consecutive(element) ==
    \A k \in 1..Len(element) : \A m \in k..Len(element) :
        (element[k][2] = "XY" /\ element[m][2] = "XY") =>
            \A between \in k..m : element[between][2] = "XY"

\* the XY records of the element of a shape hold the quantized coordinates
\* of the shape, in blocks of 1 to 8191 points
CoordinatesWritten(element, coords) ==
    /\ Len(Records(element, {"XY"})) >= 1
    /\ Consecutive(element)
    /\ \A k \in 1..Len(Records(element, {"XY"})) :
           /\ Len(Records(element, {"XY"})[k][3]) \in 1..8191
           /\ RecordFramed(Records(element, {"XY"})[k])
    /\ PointsOf(Records(element, {"XY"}))
           = [k \in 1..Len(coords) |-> Scaled(coords[k][1], coords[k][2])]

\* C16: the coordinates of every shape are written as one or more
\* consecutive XY records of at most 8191 points each, at least one per
\* shape; the records one after the other are the quantized coordinates of
\* the shape: nothing lost, repeated or out of order.
C16_CoordinatesInBlocks == codec.op = "shape" => CoordinatesWritten(codec.out, codec.arg.pts)

\* a line of two blocks and one point was written as three XY records
C16_Witness ==
    /\ codec.op = "shape"
    /\ Len(codec.arg.pts) = 2 * XYBlock + 1
    /\ Len(Records(codec.out, {"XY"})) = 3
    /\ Len(codec.out[6][3]) = 1

\* C18: the 8 bytes of _real_to_8byte(v) have bit 63 set exactly when
\* v < 0, bits 62-56 the exponent of 16 in excess 64, bits 55-0 the
\* normalized mantissa, and stand for v; for v = 0 they are eight zero bytes.
C18_RealEncoding ==
    codec.op = "_real_to_8byte" =>
        IF codec.arg.digits = <<>> THEN codec.out = <<0, 0, 0, 0, 0, 0, 0, 0>>
        ELSE /\ (codec.out[1] >= 128) = (codec.arg.sign < 0)
             /\ codec.out[2] >= HexDigit
             /\ Decoded(codec.out) = Normal(codec.arg)

\* the 32-bit integer r is n * grid / d rounded to the nearest integer
IsRounded(r, n, d, grid) ==
    /\ (n \div d) <= Int32Max \div grid
    /\ (n \div d) >= -(Int32Max \div grid)
    /\ r >= (n \div d) * grid
    /\ (n \div d) * grid < 0 => r <= (n \div d) * grid + grid
    /\ r - (n \div d) * grid <= grid
    /\ 2 * Abs((r - (n \div d) * grid) * d - (n % d) * grid) <= d

\* C19: every coordinate written is the real coordinate times
\* grid_steps_per_unit rounded to the nearest integer, as a 32-bit signed
\* integer that holds exactly that value.
C19_ExactQuantization ==
    codec.op = "quantize" =>
        /\ codec.out \in (-Int32Max - 1)..Int32Max
        /\ IsRounded(codec.out, codec.arg[1], codec.arg[2], codec.arg[3])

(***************************************************************************)
(* Auxiliary data: cells are created and add_dlw_data is called on them.   *)
(***************************************************************************)
\* number of entries added with add_dlw_data where the entries are looked at
MaxEntries == 3

DlwTypes == {"taper", "coupler"}

DlwIds == {"A", "B"}

DlwData == {1, 2}

DlwNewCell == \E name \in {"a", "bb"} : NewCell(name)

DlwAddData ==
    /\ DlwEntries < MaxEntries
    /\ \E self \in 1..Len(heap) : \E dlw_type \in DlwTypes :
       \E dlw_id \in DlwIds : \E data \in DlwData :
           add_dlw_data(self, dlw_type, dlw_id, data)

InitDlw == InitLayout /\ NoFracture /\ NoCodec

NextDlw == DlwNewCell \/ DlwAddData

SpecDlw == InitDlw /\ [][NextDlw]_vars

\* the entry stored under (dlw_type, dlw_id) in a cell, as a set
Stored(cell, dlw_type, dlw_id) ==
    {d \in cell.dlw_data : d[1] = dlw_type /\ d[2] = <<dlw_id>>}

\* a call that raised: ValueError for an identifier stored for its type,
\* and no cell has changed
RaisedAtCall ==
    /\ heap' = heap
    /\ \E self \in 1..Len(heap) : \E dlw_type \in DlwTypes : \E dlw_id \in DlwIds :
           /\ Stored(heap[self], dlw_type, dlw_id) # {}
           /\ raised' = ValueError(<<"ID", dlw_id>>)

\* a call that stored: one cell has one entry more, under a pair that had
\* none, and nothing else of the heap has changed
StoredAtCall ==
    /\ raised' = NoError
    /\ \E self \in 1..Len(heap) : \E dlw_type \in DlwTypes :
       \E dlw_id \in DlwIds : \E data \in DlwData :
           /\ Stored(heap[self], dlw_type, dlw_id) = {}
           /\ heap' = [heap EXCEPT ![self].dlw_data = @ \cup {<<dlw_type, <<dlw_id>>, data>>}]

\* C21: a call of add_dlw_data whose identifier is already stored for its
\* type raises ValueError and leaves the auxiliary data of every cell as it
\* was; a call with a fresh identifier stores its data under (dlw_type,
\* dlw_id) and changes no other entry, so a pair holds one value, the first.
C21_DlwIdUsedOnce ==
    /\ [](\A self \in 1..Len(heap) : \A dlw_type \in DlwTypes : \A dlw_id \in DlwIds :
              Cardinality(Stored(heap[self], dlw_type, dlw_id)) <= 1)
    /\ [][Len(heap') = Len(heap) => RaisedAtCall \/ StoredAtCall]_vars

\* the identifier "A" was stored for both types of one cell, and its second
\* use for one of them has raised
C21_Witness ==
    /\ raised = ValueError(<<"ID", "A">>)
    /\ \E self \in 1..Len(heap) :
           /\ Stored(heap[self], "taper", "A") # {}
           /\ Stored(heap[self], "coupler", "A") # {}

(***************************************************************************)
(* Region layers: cells get geometry and children, and add_region_layer    *)
(* is called on them.                                                      *)
(***************************************************************************)
\* number of calls of add_region_layer
MaxRegions == 2

\* number of cells where regions are added: a cell and a child
MaxRegionCells == 2

RegionGeometries == {box(<<10, 10, 30, 20>>), box(<<-4, 0, 4, 40>>)}

\* the layer the region is put on: one of its own, or one that holds geometry
RegionLayers == {<<100>>, <<1>>}

\* the layers the region is drawn around: all, layer 1, layers 1 and 2
RegionAround == {None, Some(<< <<1>> >>), Some(<< <<1>>, <<2>> >>)}

RegionPlacements == {<< <<0, 0>>, None >>, << <<100, 0>>, None >>}

RegionNewCell == Len(heap) < MaxRegionCells /\ NewCell("a")

RegionAddToLayer ==
    /\ Geometries < MaxGeometries
    /\ \E self \in 1..Len(heap) : \E layer \in BoundsLayers :
           \E geometry \in RegionGeometries : add_to_layer(self, layer, << geometry >>)

RegionAddCell ==
    /\ Instances < MaxPlaced
    /\ \E self \in 1..Len(heap) : \E cell \in (self + 1)..Len(heap) :
           \E placement \in RegionPlacements :
               add_cell(self, cell, placement[1], placement[2], 1, 1, None)

RegionAddRegion ==
    /\ Geometries < MaxGeometries + MaxRegions
    /\ \E self \in 1..Len(heap) : \E region_layer \in RegionLayers :
           \E layers \in RegionAround : add_region_layer(self, region_layer, layers)

NextRegion ==
    \/ RegionNewCell
    \/ RegionAddToLayer
    \/ RegionAddCell
    \/ RegionAddRegion

SpecRegion == InitBounds /\ [][NextRegion]_vars

\* the boxes of the non-empty geometries of a cell on the layers listed, on
\* all its layers if none is listed
ListedBoxes(self, layers) ==
    {Bounds(geo) : geo \in Range(GeometriesOn(self, LayersOrKeys(self, layers)))} \ {<<>>}

RECURSIVE ListedEnvelope(_, _)
\* the envelope of the geometry on the layers listed, of a cell and of its
\* children
ListedEnvelope(self, layers) ==
    EnvelopeOf(ListedBoxes(heap[self], layers)
               \cup {transform_bounds(ListedEnvelope(ref.cell, layers), ref.origin,
                                      AngleOrZero(ref.angle)) :
                       ref \in {r \in Range(heap[self].cells) :
                                   ListedEnvelope(r.cell, layers) # None}})

\* the heap but for the caches of the bounds
Uncached(cells) == [k \in 1..Len(cells) |-> [cells[k] EXCEPT !._bounds = None]]

\* the call has put exactly one box, the envelope of the layers listed, on
\* region_layer and has changed nothing else; the bounds are what they were,
\* and those of a region around all layers are the bounds of the cell
OneBoxAdded(self, region_layer, layers) ==
    /\ raised' = NoError
    /\ ListedEnvelope(self, layers) # None
    /\ Uncached(heap') =
           [Uncached(heap) EXCEPT ![self].layer_dict =
               LayerDictAdd(@, region_layer, << box(ListedEnvelope(self, layers)) >>)]
    /\ get_bounds(heap', self, None).value = get_bounds(heap, self, None).value
    /\ layers = None =>
           get_bounds(heap', self, Some(<< region_layer >>)).value
               = get_bounds(heap', self, None).value

\* the call has raised and no cell has changed
RegionRaised ==
    /\ raised' = TypeError(<<"box", "NoneType">>)
    /\ Uncached(heap') = Uncached(heap)

\* the claim as it was made: a cell is non-empty when its bounds are not None
RegionOfNonEmptyCell ==
    \A self \in 1..Len(heap) : \A region_layer \in RegionLayers : \A layers \in RegionAround :
        (get_bounds(heap, self, None).value # None
         /\ add_region_layer(self, region_layer, layers))
            => OneBoxAdded(self, region_layer, layers)

C22_RegionOnNonEmptyCell == [][RegionOfNonEmptyCell]_vars

RegionOfListedLayers ==
    \A self \in 1..Len(heap) : \A region_layer \in RegionLayers : \A layers \in RegionAround :
        add_region_layer(self, region_layer, layers) =>
            IF get_bounds(heap, self, layers).value # None
            THEN OneBoxAdded(self, region_layer, layers)
            ELSE RegionRaised

\* C22: when get_bounds(layers) is not None, add_region_layer(region_layer,
\* layers) adds to region_layer exactly one box, the envelope the listed
\* layers had before the call in the cell and its children (all layers when
\* layers is None), changes no other layer and leaves cell.bounds as it was,
\* and for a region around all layers get_bounds([region_layer]) equals
\* cell.bounds; when get_bounds(layers) is None the call raises TypeError and
\* adds nothing.
C22_RegionOfListedLayers == [][RegionOfListedLayers]_vars

\* a cell with geometry on layers 1 and 2 has a region around layer 1 that
\* is smaller than its bounds
C22_Witness ==
    /\ raised = NoError
    /\ \E self \in 1..Len(heap) :
           /\ Len(LayerGet(heap[self], <<100>>)) = 1
           /\ LayerGet(heap[self], <<2>>) # <<>>
           /\ Bounds(LayerGet(heap[self], <<100>>)[1]) = ListedEnvelope(self, Some(<< <<1>> >>))
           /\ Bounds(LayerGet(heap[self], <<100>>)[1]) # get_bounds(heap, self, None).value

(***************************************************************************)
(* Layers and datatypes: libraries whose shapes are added under integer    *)
(* layers and under (layer, datatype) pairs are exported.                  *)
(***************************************************************************)
\* the keys add_to_layer is called with: integers and pairs
KeysTried == {<<1>>, <<2>>, <<1, 0>>, <<1, 1>>, <<2, 5>>}

\* a cell with a box under one key and a line under another, or the same
Layered(name, key, other, refs) ==
    [Cell(name) EXCEPT
        !.layer_dict = LayerDictAdd(LayerDictAdd(<<>>, key, << box(<<0, 0, 2, 1>>) >>), other,
                                    << LineString(<< <<0, 0>>, <<2, 2>> >>) >>),
        !.cells = refs]

LayeredHeaps ==
    { << Layered("a", key, other, << Instance(2, <<0, 0>>, None, 1, 1, None) >>),
         Layered("bb", inner, inner, <<>>) >> :
          key \in KeysTried, other \in KeysTried, inner \in KeysTried }

InitLayers ==
    /\ heap \in LayeredHeaps
    /\ raised = NoError
    /\ pc = "build"
    /\ export = NoExport
    /\ outfile = <<>>
    /\ written = 0
    /\ results = <<>>
    /\ finish_order = <<>>
    /\ saved = [parallel \in BOOLEAN |-> <<>>]
    /\ warned = <<>>
    /\ last = NoQuery
    /\ NoFracture
    /\ NoCodec

SpecLayers == InitLayers /\ [][NextStream]_vars

\* the pair a key stands for: (L, D) for a pair, (L, L) for an integer L
PairOf(key) == IF Len(key) = 2 THEN <<key[1], key[2]>> ELSE <<key[1], key[1]>>

\* the element a shape is written as
ElementOf(geo) == IF IsPolygon(geo) THEN "BOUNDARY" ELSE "PATH"

\* the shapes of a cell in the order of its layers: element and pair
ShapesByKey(self) ==
    Concat([l \in 1..Len(self.layer_dict) |->
               [g \in 1..Len(self.layer_dict[l].geometries) |->
                   << ElementOf(self.layer_dict[l].geometries[g]),
                      PairOf(self.layer_dict[l].layer) >>]])

\* the shape elements of a structure as written: element, LAYER and DATATYPE
ShapesWritten(block) ==
    [n \in 1..Len(Positions(block, {"BOUNDARY", "PATH"})) |->
        << ShapeElement(block, n)[1][2],
           << Records(ShapeElement(block, n), {"LAYER"})[1][3],
              Records(ShapeElement(block, n), {"DATATYPE"})[1][3] >> >>]

\* C23: every shape element of a finished stream is written under the layer
\* and datatype of the key it was added under: (L, D) gives layer L and
\* datatype D, an integer L gives layer L and datatype L; the structure of a
\* cell holds one element for each of its shapes and no shape under any
\* other pair.
C23_LayerAndDatatypeOfKey ==
    pc = "done" =>
        \A n \in 1..Len(export.cells) :
            /\ ShapesWritten(Structure(outfile, n)) = ShapesByKey(heap[export.cells[n]])
            /\ \A k \in 1..Len(ShapesWritten(Structure(outfile, n))) :
                   /\ Len(Records(ShapeElement(Structure(outfile, n), k), {"LAYER"})) = 1
                   /\ Len(Records(ShapeElement(Structure(outfile, n), k), {"DATATYPE"})) = 1

\* a finished stream with a box under the integer 2 and a line under the
\* pair (2, 5) in one cell
C23_Witness ==
    /\ pc = "done"
    /\ ShapesWritten(Structure(outfile, 1))
           = << <<"BOUNDARY", <<2, 2>> >>, <<"PATH", <<2, 5>> >> >>

(***************************************************************************)
(* The worklist of fracture on its own: fracture is called with budgets    *)
(* from 1 on, as write_cell_to_gdsii_file(outfile, cell, max_points=...)   *)
(* and fracture(obj, ...) accept them, and runs until it returns.          *)
(***************************************************************************)
\* the budgets tried: 1, one below the points of a rectangle, the points of
\* a rectangle, and the smallest budget the configuration accepts
SmallBudgets == {1, RectanglePoints - 1, RectanglePoints, MinPoints}

\* a square, a rectangle and an L
WorklistPolygons ==
    { Polygon(ColumnRects(cols)) : cols \in { <<"low">>, <<"mid">>, <<"full", "low">> } }

\* a square with a hole; it is tried with a budget of 7, the points of its
\* L-shaped quarters (below that the corner of an L lies at a third of its
\* box and the cuts leave the grid)
Ring == Polygon(ColumnRects(<<"full", "rim", "full">>))

WorklistCalls ==
    { [entry |-> "fracture", obj |-> o, max_points |-> mp, max_points_line |-> ml,
       max_interior |-> 0, over_fracture_factor |-> 1] :
        <<o, mp, ml>> \in
            (WorklistPolygons \X SmallBudgets \X {MinPoints})
            \cup ({Ring} \X {MinPoints + 1} \X {MinPoints})
            \cup (InputLines \X {MinPoints} \X SmallBudgets) }

InitWorklist ==
    /\ call \in WorklistCalls
    /\ fpc = "fracture"
    /\ f = FractureEnter(call.obj)
    /\ h = HealEnter(<<>>)
    /\ result = <<>>
    /\ healed = <<>>
    /\ InitLayout
    /\ NoCodec

NextWorklist ==
    \/ CutAtHole
    \/ CutInHalves
    \/ CountDone
    \/ FractureReturn

\* the shape at the head of the worklist is to be cut, and the cut is on the
\* grid: the guard of CutAtHole and CutInHalves
CanCut ==
    /\ fpc = "fracture" /\ FractureRunning(f)
    /\ NeedsHoleCut(CurrentPolygon, call.max_interior)
           \/ NeedsPointCut(CurrentPolygon, CurrentBudget)
    /\ CutIsExact(f, PolyBudget, LineBudget, call.max_interior)

Cut == CutAtHole \/ CutInHalves

\* the interpreter runs the loop as long as it has a turn to take
SpecWorklist ==
    /\ InitWorklist /\ [][NextWorklist]_vars
    /\ WF_vars(CountDone) /\ WF_vars(FractureReturn)

\* the same for the turns that cut, weak fairness of Cut, with the guard of
\* the cut for ENABLED
CutsScheduled == []<>(~CanCut) \/ []<><<Cut>>_vars

\* the shapes counted as done are the same shapes, at the same places
DoneStay ==
    /\ f'.done_counter >= f.done_counter
    /\ SubSeq(f'.out_polygons, 1, f.done_counter) = SubSeq(f.out_polygons, 1, f.done_counter)

Mergeable(polygon, polygon2, budget, max_interior) ==
    /\ IsPolygon(polygon) /\ IsPolygon(polygon2)
    /\ Touches(polygon, polygon2)
    /\ IsPolygon(Union(polygon, polygon2))
    /\ Len(Union(polygon, polygon2).interiors) <= max_interior
    /\ _number_of_points(Union(polygon, polygon2)) <= budget

\* the fragments that are not polygons, in their order
NonPolygons(objs) == SelectSeq(objs, LAMBDA obj : ~IsPolygon(obj))

\* C25: when heal(fragments, max_points, max_interior) returns, its result
\* holds no two touching polygon fragments whose union is a single simple
\* polygon within the hole budget and the point budget, and the fragments
\* that are not polygons are returned unchanged.
C25_HealedToFixedPoint ==
    (IntelligentlyReturned /\ Heals(call.over_fracture_factor)) =>
        /\ \A i \in 1..Len(result) : \A j \in 1..Len(result) :
               i # j => ~Mergeable(result[i], result[j], call.max_points, 0)
        /\ NonPolygons(result) = NonPolygons(f.out_polygons)

(***************************************************************************)
(* The boundary of a polygon as the codec writes it after the fracture     *)
(* engine has counted the polygon against max_points.                      *)
(***************************************************************************)
\* rectangles, whose ring has RectanglePoints coordinates
BoundaryShapes ==
    { box(<<x0, 0, x1, y1>>) : x0 \in {0, Scale}, x1 \in {2 * Scale, 3 * Scale, 4 * Scale},
                               y1 \in {Scale, 2 * Scale, 3 * Scale} }

\* max_points of the export: from the points of a rectangle on
BoundaryBudgets == RectanglePoints..(MinPoints + 2)

\* _cell_to_gdsii_binary of a cell that holds the shape on layer 1
WriteBoundary ==
    \E shape \in BoundaryShapes : \E budget \in BoundaryBudgets :
        Applied("boundary", <<shape, budget>>,
                _cell_to_gdsii_binary(<< Built("a", << shape >>, <<>>) >>, 1,
                                      grid_steps_per_unit, budget, max_line_points,
                                      timestamp))

NextBoundary == WriteBoundary \/ Return

SpecBoundary == InitCodec /\ [][NextBoundary]_vars

\* C26: every boundary element the codec writes carries, over all its XY
\* records together and counting the closing point, at most max_points
\* points, max_points being the polygon budget of the export.
C26_BoundaryWithinBudget ==
    codec.op = "boundary" =>
        \A n \in 1..Len(Positions(codec.out, {"BOUNDARY"})) :
            Len(PointsOf(Records(ElementAt(codec.out, Positions(codec.out, {"BOUNDARY"})[n]),
                                 {"XY"}))) <= codec.arg[2]

(***************************************************************************)
(* References and structure blocks of a finished stream.                   *)
(***************************************************************************)
\* the positions of the records of a type in the stream
RecordsOf(stream, type) == {k \in 1..Len(stream) : stream[k][2] = type}

\* the structure blocks of the stream that carry the name
BlocksNamed(stream, name) == {k \in RecordsOf(stream, "STRNAME") : stream[k][3] = name}

\* C27: in every stream write_cell_to_gdsii_file completes, the SNAME of
\* each single or array reference is the STRNAME of exactly one structure
\* block of the same stream, and no two structure blocks have the same
\* STRNAME.
C27_ReferencesResolve ==
    pc = "done" =>
        /\ Cardinality(RecordsOf(outfile, "SNAME")) =
               Cardinality(RecordsOf(outfile, "SREF") \cup RecordsOf(outfile, "AREF"))
        /\ \A k \in RecordsOf(outfile, "SNAME") :
               Cardinality(BlocksNamed(outfile, outfile[k][3])) = 1
        /\ \A k \in RecordsOf(outfile, "STRNAME") :
               BlocksNamed(outfile, outfile[k][3]) = {k}

\* a stream of three structure blocks was completed in which references
\* name two different cells, one of them more than once
C27_Witness ==
    /\ pc = "done"
    /\ Cardinality(RecordsOf(outfile, "STRNAME")) = 3
    /\ \E j, k \in RecordsOf(outfile, "SNAME") : outfile[j][3] # outfile[k][3]
    /\ \E j, k \in RecordsOf(outfile, "SNAME") : j # k /\ outfile[j][3] = outfile[k][3]

(***************************************************************************)
(* The bounds of a cell with arrays of children: cells are built, a child  *)
(* is added with columns, rows and spacing, and the bounds are queried.    *)
(***************************************************************************)
\* <<origin, columns, rows, spacing>> of add_cell
ArrayPlacements ==
    { << <<0, 0>>, 1, 1, None >>, << <<100, 0>>, 1, 1, None >>,
      << <<0, 0>>, 2, 1, Some(<<50, 0>>) >>, << <<100, 0>>, 2, 3, Some(<<50, 70>>) >>,
      << <<0, 0>>, 1, 2, Some(<<0, -70>>) >> }

\* a cell is added to a cell created before it, as a single instance or as
\* an array
ArrayAddCell ==
    /\ Instances < MaxPlaced
    /\ \E self \in 1..Len(heap) : \E cell \in (self + 1)..Len(heap) :
           \E placement \in ArrayPlacements :
               add_cell(self, cell, placement[1], None, placement[2], placement[3],
                        placement[4])

ArrayQuery == \E self \in 1..Len(heap) : GetBounds(self, None)

NextArray ==
    \/ RegionNewCell
    \/ RegionAddToLayer
    \/ ArrayAddCell
    \/ ArrayQuery

SpecArray == InitBounds /\ [][NextArray]_vars

\* the box inner lies within the box outer
Within(inner, outer) ==
    /\ outer[1] <= inner[1]
    /\ outer[2] <= inner[2]
    /\ inner[3] <= outer[3]
    /\ inner[4] <= outer[4]

\* the origins of the copies of an instance: origin + (i * spacing_x,
\* j * spacing_y) for 0 <= i < columns and 0 <= j < rows
GridPositions(ref) ==
    IF ref.spacing = None THEN {ref.origin}
    ELSE { << ref.origin[1] + i * ref.spacing[1][1], ref.origin[2] + j * ref.spacing[1][2] >> :
             i \in 0..(ref.columns - 1), j \in 0..(ref.rows - 1) }

\* the bounds returned contain the box of the child of the instance at
\* every grid position
CopiesEnclosed(bounds, ref) ==
    Envelope(ref.cell) # None =>
        /\ bounds # None
        /\ \A position \in GridPositions(ref) :
               Within(Shifted(Envelope(ref.cell), position), bounds)

\* C28: the bounds of a cell contain the box of the child of every instance
\* at every grid position origin + (i * spacing_x, j * spacing_y) with
\* 0 <= i < columns and 0 <= j < rows.
C28_BoundsEncloseArrays ==
    FullQuery(last) =>
        \A ref \in Range(heap[last.cell].cells) : CopiesEnclosed(last.value, ref)

(***************************************************************************)
(* The cell traversals of write_cell_to_dxf_file and of                    *)
(* write_cell_to_gdsii_file, applied to trees of cells.                    *)
(***************************************************************************)
\* a single instance of a cell at the origin
Once(cell) == Instance(cell, <<0, 0>>, None, 1, 1, None)

\* the references of a cell to the cells created after it: none, one, or
\* two, to one cell or to two
TreeRefs(cells) ==
    {<<>>} \cup { << Once(c) >> : c \in cells }
           \cup { << Once(c), Once(d) >> : c \in cells, d \in cells }

\* trees of three cells; the third may have the name of the second or of
\* the first
CellTrees ==
    { << Built("a", <<>>, refs), Built("bb", << box(<<0, 0, 2, 1>>) >>, nested),
         Built(third, <<>>, <<>>) >> :
          refs \in TreeRefs({2, 3}), nested \in TreeRefs({3}), third \in {"ccc", "bb", "a"} }

\* the traversal of write_cell_to_gdsii_file(outfile, cell) from the first
\* cell of a tree
GdsiiTraversal ==
    \E tree \in CellTrees :
        Applied("gdsii_cells", tree, add_cells_to_unique_list(tree, NoCells, 1))

\* the traversal of write_cell_to_dxf_file(outfile, cell) from the first
\* cell of a tree
DxfTraversal ==
    \E tree \in CellTrees :
        Applied("dxf_cells", tree, dxf_add_cells_to_unique_list(tree, DxfNoCells, 1))

NextTraversal == GdsiiTraversal \/ DxfTraversal \/ Return

SpecTraversal == InitCodec /\ [][NextTraversal]_vars

\* the traversal raised no error
Accepted(st) == st.raised = NoError

\* C29: the traversal of the DXF export raises for a tree of cells exactly
\* when that of the GDSII export raises for it, and lists the same cells
\* when it does not: a cell object instantiated more than once is listed
\* once and raises no error.
C29_DxfTraversalAsGdsii ==
    codec.op = "dxf_cells" =>
        /\ Accepted(codec.out) <=> Accepted(add_cells_to_unique_list(codec.arg, NoCells, 1))
        /\ Accepted(codec.out) =>
               codec.out.cells = add_cells_to_unique_list(codec.arg, NoCells, 1).cells

(***************************************************************************)
(* The global configuration: its properties are set one after another and  *)
(* a target profile is chosen.                                             *)
(***************************************************************************)
\* the limits tried: None, one that is too small, and limits of profiles
LimitsTried == {None, Some(5), Some(6), Some(200), Some(4000)}

DoseFactors == {1, 2}

\* what a call on the configuration leaves behind
Reconfigured(st) ==
    /\ raised = NoError
    /\ configuration' = st.self
    /\ raised' = st.raised
    /\ UNCHANGED <<build, codec, heap, fracture_vars, export_vars, last>>

\* configuration.datatype_policy = policy
SetDatatypePolicy(policy) == Reconfigured(datatype_policy_setter(configuration, policy))

\* configuration.dose_factor = value
SetDoseFactor(value) == Reconfigured(dose_factor_setter(configuration, value))

\* configuration.point_limit = limit
SetPointLimit(limit) == Reconfigured(point_limit_setter(configuration, limit))

\* configuration.point_limit_line = max_points_line
SetPointLimitLine(max_points_line) ==
    Reconfigured(point_limit_line_setter(configuration, max_points_line))

\* configuration.set_target_profile(profile_name)
SetTargetProfile(profile_name) ==
    Reconfigured(set_target_profile(configuration, profile_name))

NextConfiguration ==
    \/ \E policy \in DefaultDatatype \cup {"none"} : SetDatatypePolicy(policy)
    \/ \E value \in DoseFactors : SetDoseFactor(value)
    \/ \E limit \in LimitsTried : SetPointLimit(limit)
    \/ \E max_points_line \in LimitsTried : SetPointLimitLine(max_points_line)
    \/ \E profile_name \in DOMAIN MACHINE_DEFAULTS \cup {"none"} :
           SetTargetProfile(profile_name)

SpecConfiguration == InitBounds /\ [][NextConfiguration]_vars

\* after point_limit_line = n the getter returns n and point_limit is as it
\* was
LineLimitReadsBack ==
    \A n \in LimitsTried :
        (LimitAccepted(n) /\ SetPointLimitLine(n)) =>
            /\ point_limit_line(configuration') = n
            /\ point_limit(configuration') = point_limit(configuration)

\* after point_limit = n the getter returns n and point_limit_line is as it
\* was
LimitReadsBack ==
    \A n \in LimitsTried :
        (LimitAccepted(n) /\ SetPointLimit(n)) =>
            /\ point_limit(configuration') = n
            /\ point_limit_line(configuration') = point_limit_line(configuration)

\* the getters return the values of the profile
ReadsAs(self, profile) ==
    /\ datatype_policy(self) = profile.datatype_policy
    /\ dose_factor(self) = profile.dose_factor
    /\ point_limit(self) = profile.point_limit
    /\ point_limit_line(self) = profile.point_limit_line

\* set_target_profile(p) succeeds and the getters return the values of p
ProfileReadsBack ==
    \A p \in DOMAIN MACHINE_DEFAULTS :
        SetTargetProfile(p) =>
            /\ raised' = NoError
            /\ ReadsAs(configuration', MACHINE_DEFAULTS[p])

\* C30: after point_limit_line = n, point_limit_line returns n and
\* point_limit is unchanged, and likewise for point_limit; after
\* set_target_profile(p), for every profile p of MACHINE_DEFAULTS, the call
\* has succeeded and datatype_policy, dose_factor, point_limit and
\* point_limit_line return the values of that profile.
C30_ConfigurationReadsBack ==
    [][LineLimitReadsBack /\ LimitReadsBack /\ ProfileReadsBack]_vars

====
